---- MODULE Spec2Model ----
(***************************************************************************)
(* gcp-visualizer: the collection-and-persistence pipeline.                *)
(*                                                                         *)
(* The module models the retry/classification engine (retryWithBackoff,    *)
(* isRetryable), the SQLite resource store, the per-project Collector and  *)
(* the ProjectPool.  Errors are values with a message of characters, so    *)
(* that fmt.Errorf, strings.ToLower and strings.Contains are modelled by   *)
(* what they do to the text.                                               *)
(***************************************************************************)
EXTENDS Integers, Sequences, FiniteSets, TLC

VARIABLES
    ctx,    \* the caller's context: "live", "canceled" or "deadline"
    rs,     \* one retryWithBackoff call: its locals and position
    cl,     \* one isRetryable call: its argument and result
    db,     \* the SQLite database: the projects, topics and subscriptions tables
    now,    \* CURRENT_TIMESTAMP, in seconds
    hist,   \* what the Store's callers did: the calls made and their results
    co,     \* one CollectProject call: its position, its iterator, what it did
    pool,   \* one ProjectPool and its CollectAll call: the workers, the
            \* semaphore, the errors map
    rd,     \* the latest query of the Store: the call and what it returned
    wr,     \* two concurrent writers of the Store: the saves each has made
    cc,     \* the clients map of a Collector and its Close call
    ex,     \* one extractResourceName call: its argument and result
    gb,     \* one Build call of the graph Builder: its argument and result
    gc      \* concurrent getClient calls on one Collector: the mutex, the
            \* clients map and the position of each caller

vars == <<ctx, rs, cl, db, now, hist, co, pool, rd, wr, cc, ex, gb, gc>>

storeVars == <<db, now, hist>>

(***************************************************************************)
(* Text.  A string is a sequence of one-character strings.                 *)
(***************************************************************************)
\* "max retries ("
FmtMaxRetriesHead ==
    <<"m", "a", "x", " ", "r", "e", "t", "r", "i", "e", "s", " ", "(">>
\* ") exceeded, last error: "
FmtMaxRetriesTail ==
    <<")", " ", "e", "x", "c", "e", "e", "d", "e", "d", ",", " ", "l", "a", "s", "t", " ",
      "e", "r", "r", "o", "r", ":", " ">>
\* "rate limiter error: "
FmtRateLimiter ==
    <<"r", "a", "t", "e", " ", "l", "i", "m", "i", "t", "e", "r", " ", "e", "r", "r", "o",
      "r", ":", " ">>
\* "failed to iterate subscriptions: "
FmtIterateSubscriptions ==
    <<"f", "a", "i", "l", "e", "d", " ", "t", "o", " ", "i", "t", "e", "r", "a", "t", "e",
      " ", "s", "u", "b", "s", "c", "r", "i", "p", "t", "i", "o", "n", "s", ":", " ">>
\* "rpc error: code = "
FmtRpcHead ==
    <<"r", "p", "c", " ", "e", "r", "r", "o", "r", ":", " ", "c", "o", "d", "e", " ", "=",
      " ">>
\* " desc = "
FmtRpcDesc ==
    <<" ", "d", "e", "s", "c", " ", "=", " ">>
\* "googleapi: Error "
FmtGoogleapiHead ==
    <<"g", "o", "o", "g", "l", "e", "a", "p", "i", ":", " ", "E", "r", "r", "o", "r", " ">>
\* ": "
FmtGoogleapiSep ==
    <<":", " ">>
\* "context canceled"
MsgContextCanceled ==
    <<"c", "o", "n", "t", "e", "x", "t", " ", "c", "a", "n", "c", "e", "l", "e", "d">>
\* "context deadline exceeded"
MsgContextDeadline ==
    <<"c", "o", "n", "t", "e", "x", "t", " ", "d", "e", "a", "d", "l", "i", "n", "e", " ",
      "e", "x", "c", "e", "e", "d", "e", "d">>
\* "no more items in iterator"
MsgIteratorDone ==
    <<"n", "o", " ", "m", "o", "r", "e", " ", "i", "t", "e", "m", "s", " ", "i", "n", " ",
      "i", "t", "e", "r", "a", "t", "o", "r">>
\* "rate: Wait(n=1) would exceed context deadline"
MsgWouldExceed ==
    <<"r", "a", "t", "e", ":", " ", "W", "a", "i", "t", "(", "n", "=", "1", ")", " ", "w",
      "o", "u", "l", "d", " ", "e", "x", "c", "e", "e", "d", " ", "c", "o", "n", "t", "e",
      "x", "t", " ", "d", "e", "a", "d", "l", "i", "n", "e">>
\* "max retries exceeded"
MsgMaxRetriesExceeded ==
    <<"m", "a", "x", " ", "r", "e", "t", "r", "i", "e", "s", " ", "e", "x", "c", "e", "e",
      "d", "e", "d">>
\* "timeout"
IndTimeout ==
    <<"t", "i", "m", "e", "o", "u", "t">>
\* "timed out"
IndTimedOut ==
    <<"t", "i", "m", "e", "d", " ", "o", "u", "t">>
\* "deadline"
IndDeadline ==
    <<"d", "e", "a", "d", "l", "i", "n", "e">>
\* "temporary"
IndTemporary ==
    <<"t", "e", "m", "p", "o", "r", "a", "r", "y">>
\* "connection reset"
IndConnectionReset ==
    <<"c", "o", "n", "n", "e", "c", "t", "i", "o", "n", " ", "r", "e", "s", "e", "t">>
\* "connection refused"
IndConnectionRefused ==
    <<"c", "o", "n", "n", "e", "c", "t", "i", "o", "n", " ", "r", "e", "f", "u", "s", "e",
      "d">>
\* "broken pipe"
IndBrokenPipe ==
    <<"b", "r", "o", "k", "e", "n", " ", "p", "i", "p", "e">>
\* "quota exceeded"
MsgQuota ==
    <<"q", "u", "o", "t", "a", " ", "e", "x", "c", "e", "e", "d", "e", "d">>
\* "Gateway TIMEOUT"
MsgUpperTimeout ==
    <<"G", "a", "t", "e", "w", "a", "y", " ", "T", "I", "M", "E", "O", "U", "T">>
\* "operation timed out"
MsgTimedOut ==
    <<"o", "p", "e", "r", "a", "t", "i", "o", "n", " ", "t", "i", "m", "e", "d", " ", "o",
      "u", "t">>
\* "temporary failure"
MsgTemporary ==
    <<"t", "e", "m", "p", "o", "r", "a", "r", "y", " ", "f", "a", "i", "l", "u", "r", "e">>
\* "connection reset by peer"
MsgReset ==
    <<"c", "o", "n", "n", "e", "c", "t", "i", "o", "n", " ", "r", "e", "s", "e", "t", " ",
      "b", "y", " ", "p", "e", "e", "r">>
\* "dial tcp: connection refused"
MsgRefused ==
    <<"d", "i", "a", "l", " ", "t", "c", "p", ":", " ", "c", "o", "n", "n", "e", "c", "t",
      "i", "o", "n", " ", "r", "e", "f", "u", "s", "e", "d">>
\* "write: broken pipe"
MsgPipe ==
    <<"w", "r", "i", "t", "e", ":", " ", "b", "r", "o", "k", "e", "n", " ", "p", "i", "p",
      "e">>
\* "some unknown error"
MsgUnknown ==
    <<"s", "o", "m", "e", " ", "u", "n", "k", "n", "o", "w", "n", " ", "e", "r", "r", "o",
      "r">>
\* "permission denied"
MsgDenied ==
    <<"p", "e", "r", "m", "i", "s", "s", "i", "o", "n", " ", "d", "e", "n", "i", "e", "d">>

CodeString(c) ==
    CASE c = "OK" -> <<"O", "K">>
      [] c = "Canceled" -> <<"C", "a", "n", "c", "e", "l", "e", "d">>
      [] c = "Unknown" -> <<"U", "n", "k", "n", "o", "w", "n">>
      [] c = "InvalidArgument" -> <<"I", "n", "v", "a", "l", "i", "d", "A", "r", "g", "u",
            "m", "e", "n", "t">>
      [] c = "DeadlineExceeded" -> <<"D", "e", "a", "d", "l", "i", "n", "e", "E", "x", "c",
            "e", "e", "d", "e", "d">>
      [] c = "NotFound" -> <<"N", "o", "t", "F", "o", "u", "n", "d">>
      [] c = "AlreadyExists" -> <<"A", "l", "r", "e", "a", "d", "y", "E", "x", "i", "s",
            "t", "s">>
      [] c = "PermissionDenied" -> <<"P", "e", "r", "m", "i", "s", "s", "i", "o", "n", "D",
            "e", "n", "i", "e", "d">>
      [] c = "ResourceExhausted" -> <<"R", "e", "s", "o", "u", "r", "c", "e", "E", "x",
            "h", "a", "u", "s", "t", "e", "d">>
      [] c = "FailedPrecondition" -> <<"F", "a", "i", "l", "e", "d", "P", "r", "e", "c",
            "o", "n", "d", "i", "t", "i", "o", "n">>
      [] c = "Aborted" -> <<"A", "b", "o", "r", "t", "e", "d">>
      [] c = "OutOfRange" -> <<"O", "u", "t", "O", "f", "R", "a", "n", "g", "e">>
      [] c = "Unimplemented" -> <<"U", "n", "i", "m", "p", "l", "e", "m", "e", "n", "t",
            "e", "d">>
      [] c = "Internal" -> <<"I", "n", "t", "e", "r", "n", "a", "l">>
      [] c = "Unavailable" -> <<"U", "n", "a", "v", "a", "i", "l", "a", "b", "l", "e">>
      [] c = "DataLoss" -> <<"D", "a", "t", "a", "L", "o", "s", "s">>
      [] c = "Unauthenticated" -> <<"U", "n", "a", "u", "t", "h", "e", "n", "t", "i", "c",
            "a", "t", "e", "d">>

UpperChars ==
    <<"A", "B", "C", "D", "E", "F", "G", "H", "I", "J", "K", "L", "M", "N", "O", "P", "Q",
      "R", "S", "T", "U", "V", "W", "X", "Y", "Z">>

LowerChars ==
    <<"a", "b", "c", "d", "e", "f", "g", "h", "i", "j", "k", "l", "m", "n", "o", "p", "q",
      "r", "s", "t", "u", "v", "w", "x", "y", "z">>

DigitChars ==
    <<"0", "1", "2", "3", "4", "5", "6", "7", "8", "9">>

ToLowerChar(c) ==
    IF \E k \in 1..Len(UpperChars) : UpperChars[k] = c
    THEN LowerChars[CHOOSE k \in 1..Len(UpperChars) : UpperChars[k] = c]
    ELSE c

\* strings.ToLower
ToLower(s) ==
    [k \in 1..Len(s) |-> ToLowerChar(s[k])]

\* strings.Contains
Contains(s, substr) ==
    \E k \in 0..(Len(s) - Len(substr)) : SubSeq(s, k + 1, k + Len(substr)) = substr

\* the %d verb of fmt, for a natural number
RECURSIVE FormatInt(_)
FormatInt(n) ==
    IF n < 10
    THEN <<DigitChars[n + 1]>>
    ELSE FormatInt(n \div 10) \o <<DigitChars[(n % 10) + 1]>>

(***************************************************************************)
(* Errors.  kind tells the Go type ("nil", a package-level sentinel, a     *)
(* gRPC status error, a *googleapi.Error, an errors.New value, or an       *)
(* fmt.Errorf("...%w") wrapper); inner holds the wrapped error, if any;    *)
(* text is the message the creator passed in.                              *)
(***************************************************************************)
NilErr ==
    [kind |-> "nil", ident |-> "", grpcCode |-> "", httpCode |-> 0,
     text |-> <<>>, msg |-> <<>>, inner |-> <<>>]

Sentinel(id, m) ==
    [kind |-> "sentinel", ident |-> id, grpcCode |-> "", httpCode |-> 0,
     text |-> m, msg |-> m, inner |-> <<>>]

ContextCanceled == Sentinel("context.Canceled", MsgContextCanceled)

ContextDeadlineExceeded == Sentinel("context.DeadlineExceeded", MsgContextDeadline)

IteratorDone == Sentinel("iterator.Done", MsgIteratorDone)

\* status.Error(c, desc): nil for codes.OK
StatusError(c, desc) ==
    IF c = "OK"
    THEN NilErr
    ELSE [kind |-> "grpc", ident |-> "", grpcCode |-> c, httpCode |-> 0, text |-> desc,
          msg |-> FmtRpcHead \o CodeString(c) \o FmtRpcDesc \o desc, inner |-> <<>>]

\* &googleapi.Error{Code: code, Message: message}
GoogleapiError(code, message) ==
    [kind |-> "http", ident |-> "", grpcCode |-> "", httpCode |-> code, text |-> message,
     msg |-> FmtGoogleapiHead \o FormatInt(code) \o FmtGoogleapiSep \o message,
     inner |-> <<>>]

\* errors.New(m)
ErrorsNew(m) ==
    [kind |-> "plain", ident |-> "", grpcCode |-> "", httpCode |-> 0,
     text |-> m, msg |-> m, inner |-> <<>>]

\* fmt.Errorf(prefix + "%w", err)
Errorf(prefix, err) ==
    [kind |-> "wrap", ident |-> "", grpcCode |-> "", httpCode |-> 0,
     text |-> <<>>, msg |-> prefix \o err.msg, inner |-> <<err>>]

\* status.FromError(err): the code of the first gRPC status in the chain of
\* wrapped errors, "" when there is none (ok = false)
RECURSIVE StatusFromError(_)
StatusFromError(err) ==
    IF err.kind = "grpc"
    THEN err.grpcCode
    ELSE IF err.inner # <<>>
         THEN StatusFromError(err.inner[1])
         ELSE ""

\* err.(*googleapi.Error): a type assertion on err itself, no unwrapping
GoogleapiCode(err) ==
    IF err.kind = "http" THEN err.httpCode ELSE 0

transientIndicators ==
    {IndTimeout, IndTimedOut, IndDeadline, IndTemporary, IndConnectionReset,
     IndConnectionRefused, IndBrokenPipe}

\* isRetryable without the lower-casing of the message
isRetryable_CaseSensitive(err) ==
    IF err = NilErr
    THEN FALSE
    ELSE IF err = ContextCanceled \/ err = ContextDeadlineExceeded
         THEN FALSE
         ELSE IF StatusFromError(err) \in
                    {"Unavailable", "ResourceExhausted", "DeadlineExceeded"}
              THEN TRUE
              ELSE IF StatusFromError(err) \in
                         {"PermissionDenied", "Unauthenticated", "NotFound",
                          "InvalidArgument"}
                   THEN FALSE
                   ELSE IF GoogleapiCode(err) \in {429, 502, 503, 504}
                        THEN TRUE
                        ELSE IF GoogleapiCode(err) \in {400, 401, 403, 404}
                             THEN FALSE
                             ELSE \E indicator \in transientIndicators :
                                      Contains(err.msg, indicator)

isRetryable(err) ==
    IF err = NilErr
    THEN FALSE
    ELSE IF err = ContextCanceled \/ err = ContextDeadlineExceeded
         THEN FALSE
         ELSE IF StatusFromError(err) \in
                    {"Unavailable", "ResourceExhausted", "DeadlineExceeded"}
              THEN TRUE
              ELSE IF StatusFromError(err) \in
                         {"PermissionDenied", "Unauthenticated", "NotFound",
                          "InvalidArgument"}
                   THEN FALSE
                   ELSE IF GoogleapiCode(err) \in {429, 502, 503, 504}
                        THEN TRUE
                        ELSE IF GoogleapiCode(err) \in {400, 401, 403, 404}
                             THEN FALSE
                             ELSE \E indicator \in transientIndicators :
                                      Contains(ToLower(err.msg), indicator)

(***************************************************************************)
(* retryWithBackoff.  rs holds the locals of one call (i, backoff,         *)
(* lastErr), its position pc, the timer of the backoff sleep, the error    *)
(* it returned, and a record of what happened: the errors fn returned, in  *)
(* order, the sleeps it completed, and where it stood when the context     *)
(* was cancelled.                                                          *)
(***************************************************************************)
maxRetries == 3

initialBackoff == 1

RetryIdle ==
    [pc |-> "idle", i |-> 0, backoff |-> 0, lastErr |-> NilErr, timer |-> "none",
     result |-> NilErr, returned |-> <<>>, slept |-> <<>>, cancelPc |-> "",
     callsAtCancel |-> 0]

\* entry of retryWithBackoff: backoff := 1s, i := 0
RetryStart ==
    [RetryIdle EXCEPT !.pc = "call", !.backoff = initialBackoff]

\* ctx.Err()
CtxErr(c) ==
    IF c = "canceled" THEN ContextCanceled
    ELSE IF c = "deadline" THEN ContextDeadlineExceeded
    ELSE NilErr

\* the error returned when the loop runs out
MaxRetriesError(n, lastErr) ==
    [kind |-> "wrap", ident |-> "", grpcCode |-> "", httpCode |-> 0, text |-> <<>>,
     msg |-> FmtMaxRetriesHead \o FormatInt(n) \o FmtMaxRetriesTail \o lastErr.msg,
     inner |-> <<lastErr>>]

\* i++ and the loop test; the return after the loop
LoopNext(r) ==
    IF r.i + 1 < maxRetries
    THEN [r EXCEPT !.i = @ + 1, !.pc = "call"]
    ELSE [r EXCEPT !.i = @ + 1, !.pc = "done",
                   !.result = MaxRetriesError(maxRetries, r.lastErr)]

\* the loop body without the return on a non-retryable error
AfterFn_RetriesEveryError(r, err) ==
    LET r1 == [r EXCEPT !.returned = Append(@, err)]
    IN  IF err = NilErr
        THEN [r1 EXCEPT !.pc = "done", !.result = NilErr]
        ELSE LET r2 == [r1 EXCEPT !.lastErr = err]
             IN  IF r.i < maxRetries - 1
                 THEN [r2 EXCEPT !.pc = "select", !.timer = "armed"]
                 ELSE LoopNext(r2)

\* one loop body, from the return of fn with err up to the select
AfterFn(r, err) ==
    LET r1 == [r EXCEPT !.returned = Append(@, err)]
    IN  IF err = NilErr
        THEN [r1 EXCEPT !.pc = "done", !.result = NilErr]
        ELSE LET r2 == [r1 EXCEPT !.lastErr = err]
             IN  IF ~isRetryable(err)
                 THEN [r2 EXCEPT !.pc = "done", !.result = err]
                 ELSE IF r.i < maxRetries - 1
                      THEN [r2 EXCEPT !.pc = "select", !.timer = "armed"]
                      ELSE LoopNext(r2)

\* a backoff that stays at its first value
TimerCase_ConstantBackoff(r) ==
    LoopNext([r EXCEPT !.slept = Append(@, r.backoff), !.timer = "none"])

\* case <-timer.C: backoff *= 2, next iteration
TimerCase(r) ==
    LoopNext([r EXCEPT !.slept = Append(@, r.backoff), !.backoff = @ * 2,
                       !.timer = "none"])

\* a sleep that does not look at ctx.Done(): the wait runs to its end
DoneCase_SleepsOn(r, c) ==
    TimerCase(r)

\* case <-ctx.Done(): timer.Stop(); return ctx.Err()
DoneCase(r, c) ==
    [r EXCEPT !.pc = "done", !.result = CtxErr(c), !.timer = "none"]

(***************************************************************************)
(* The Resource Store (SQLite).  db holds the three tables as sets of      *)
(* rows.  A transaction works on a view of the database that Commit makes  *)
(* the database and Rollback drops.                                        *)
(***************************************************************************)
\* "database is locked (5) (SQLITE_BUSY)"
MsgDatabaseLocked ==
    <<"d", "a", "t", "a", "b", "a", "s", "e", " ", "i", "s", " ", "l", "o", "c", "k", "e",
      "d", " ", "(", "5", ")", " ", "(", "S", "Q", "L", "I", "T", "E", "_", "B", "U", "S",
      "Y", ")">>

\* the error of a failing database call
StorageError == ErrorsNew(MsgDatabaseLocked)

EmptyDB == [projects |-> {}, topics |-> {}, subscriptions |-> {}]

Max(S) == CHOOSE x \in S : \A y \in S : y <= x

\* id INTEGER PRIMARY KEY, not given in the INSERT: the largest rowid of the
\* table plus one
NewRowid(table) ==
    IF table = {} THEN 1 ELSE Max({r.id : r \in table}) + 1

\* an UpsertProject that keeps the Project record of the latest save only
UpsertProject_KeepsLatest(d, projectID, ts) ==
    [d EXCEPT !.projects = {[project_id |-> projectID, last_synced |-> ts]}]

\* INSERT OR REPLACE INTO projects (project_id, last_synced)
\* VALUES (?, CURRENT_TIMESTAMP): a row with the same primary key is deleted
UpsertProject(d, projectID, ts) ==
    [d EXCEPT !.projects =
        {r \in @ : r.project_id # projectID}
        \cup {[project_id |-> projectID, last_synced |-> ts]}]

\* INSERT OR IGNORE INTO topics (...): a row with the same
\* full_resource_name stays as it is
UpsertTopic_InsertOrIgnore(d, topic, ts) ==
    IF \E r \in d.topics : r.full_resource_name = topic.FullResourceName
    THEN d
    ELSE [d EXCEPT !.topics =
            @ \cup {[id |-> NewRowid(d.topics), name |-> topic.Name,
                     project_id |-> topic.ProjectID,
                     full_resource_name |-> topic.FullResourceName,
                     metadata |-> topic.Metadata, last_synced |-> ts]}]

\* INSERT OR REPLACE INTO topics (...): a row with the same
\* full_resource_name (UNIQUE) is deleted
UpsertTopic(d, topic, ts) ==
    [d EXCEPT !.topics =
        {r \in @ : r.full_resource_name # topic.FullResourceName}
        \cup {[id |-> NewRowid(d.topics), name |-> topic.Name,
               project_id |-> topic.ProjectID,
               full_resource_name |-> topic.FullResourceName,
               metadata |-> topic.Metadata, last_synced |-> ts]}]

\* an UpsertSubscription that replaces what is stored for the project
UpsertSubscription_ReplacesProject(d, sub, ts) ==
    [d EXCEPT !.subscriptions =
        {r \in @ : r.project_id # sub.ProjectID}
        \cup {[id |-> NewRowid(d.subscriptions), name |-> sub.Name,
               project_id |-> sub.ProjectID,
               topic_full_resource_name |-> sub.TopicFullResourceName,
               full_resource_name |-> sub.FullResourceName,
               metadata |-> sub.Metadata, last_synced |-> ts]}]

\* INSERT OR REPLACE INTO subscriptions (...)
UpsertSubscription(d, sub, ts) ==
    [d EXCEPT !.subscriptions =
        {r \in @ : r.full_resource_name # sub.FullResourceName}
        \cup {[id |-> NewRowid(d.subscriptions), name |-> sub.Name,
               project_id |-> sub.ProjectID,
               topic_full_resource_name |-> sub.TopicFullResourceName,
               full_resource_name |-> sub.FullResourceName,
               metadata |-> sub.Metadata, last_synced |-> ts]}]

\* s.db.BeginTx
BeginTx(d) == [base |-> d, view |-> d]

\* a Commit that loses what the transaction wrote
Commit_Discards(tx) == tx.base

\* tx.Commit
Commit(tx) == tx.view

\* a Save without the deferred rollback: what the transaction wrote stays
Rollback_KeepsWrites(tx) == tx.view

\* the deferred tx.Rollback
Rollback(tx) == tx.base

\* the calls of a Save that can fail; "" is the call without a failure
SaveFails == {"", "begin", "project", "resource", "commit"}

\* a SaveTopic that upserts the project on s.db, outside the transaction:
\* the Project record stays when a later call of the Save fails
SaveTopic_ProjectOutsideTx(d, ts, topic, fail) ==
    IF fail \in {"begin", "project"}
    THEN [db |-> d, err |-> StorageError]
    ELSE LET d1 == UpsertProject(d, topic.ProjectID, ts)
         IN  IF fail \in {"resource", "commit"}
             THEN [db |-> d1, err |-> StorageError]
             ELSE [db |-> UpsertTopic(d1, topic, ts), err |-> NilErr]

\* SaveTopic(ctx, topic) on database d at time ts: the database after the
\* call and the error returned
SaveTopic(d, ts, topic, fail) ==
    IF fail = "begin"
    THEN [db |-> d, err |-> StorageError]
    ELSE LET tx  == BeginTx(d)
             tx1 == [tx EXCEPT !.view = UpsertProject(@, topic.ProjectID, ts)]
             tx2 == [tx1 EXCEPT !.view = UpsertTopic(@, topic, ts)]
         IN  IF fail = "project"
             THEN [db |-> Rollback(tx), err |-> StorageError]
             ELSE IF fail = "resource"
                  THEN [db |-> Rollback(tx1), err |-> StorageError]
                  ELSE IF fail = "commit"
                       THEN [db |-> Rollback(tx2), err |-> StorageError]
                       ELSE [db |-> Commit(tx2), err |-> NilErr]

\* SaveSubscription without the upsert of the owning project
SaveSubscription_NoProjectUpsert(d, ts, sub, fail) ==
    IF fail = "begin"
    THEN [db |-> d, err |-> StorageError]
    ELSE LET tx  == BeginTx(d)
             tx2 == [tx EXCEPT !.view = UpsertSubscription(@, sub, ts)]
         IN  IF fail = "project"
             THEN [db |-> Rollback(tx), err |-> StorageError]
             ELSE IF fail = "resource"
                  THEN [db |-> Rollback(tx), err |-> StorageError]
                  ELSE IF fail = "commit"
                       THEN [db |-> Rollback(tx2), err |-> StorageError]
                       ELSE [db |-> Commit(tx2), err |-> NilErr]

\* SaveSubscription(ctx, sub)
SaveSubscription(d, ts, sub, fail) ==
    IF fail = "begin"
    THEN [db |-> d, err |-> StorageError]
    ELSE LET tx  == BeginTx(d)
             tx1 == [tx EXCEPT !.view = UpsertProject(@, sub.ProjectID, ts)]
             tx2 == [tx1 EXCEPT !.view = UpsertSubscription(@, sub, ts)]
         IN  IF fail = "project"
             THEN [db |-> Rollback(tx), err |-> StorageError]
             ELSE IF fail = "resource"
                  THEN [db |-> Rollback(tx1), err |-> StorageError]
                  ELSE IF fail = "commit"
                       THEN [db |-> Rollback(tx2), err |-> StorageError]
                       ELSE [db |-> Commit(tx2), err |-> NilErr]

\* an UpdateProjectSyncTime that also drops what was stored for the project
UpdateProjectSyncTime_ClearsProject(d, ts, projectID, fail) ==
    IF fail = "exec"
    THEN [db |-> d, err |-> StorageError]
    ELSE [db |-> [UpsertProject(d, projectID, ts) EXCEPT
                    !.topics = {r \in @ : r.project_id # projectID},
                    !.subscriptions = {r \in @ : r.project_id # projectID}],
          err |-> NilErr]

\* UpdateProjectSyncTime(ctx, projectID): one statement, no transaction
UpdateProjectSyncTime(d, ts, projectID, fail) ==
    IF fail = "exec"
    THEN [db |-> d, err |-> StorageError]
    ELSE [db |-> UpsertProject(d, projectID, ts), err |-> NilErr]

\* the project IDs of the model, in the order of ORDER BY project_id
ProjectIDs == <<"p1", "p2">>

Rank(p) == CHOOSE k \in 1..Len(ProjectIDs) : ProjectIDs[k] = p

\* the elements of a set of project IDs in ascending order
RECURSIVE Sorted(_)
Sorted(S) ==
    IF S = {}
    THEN <<>>
    ELSE LET least == CHOOSE p \in S : \A q \in S : Rank(p) <= Rank(q)
         IN  <<least>> \o Sorted(S \ {least})

\* a GetAllProjects that reads the projects of the topics table
GetAllProjects_FromTopics(d) ==
    Sorted({r.project_id : r \in d.topics})

\* GetAllProjects: SELECT DISTINCT project_id FROM projects ORDER BY project_id
GetAllProjects(d) ==
    Sorted({r.project_id : r \in d.projects})

Range(seq) == {seq[k] : k \in 1..Len(seq)}

\* the rows of a table in the order of their rowid, the order of a table
\* scan (SQL leaves the order of the rows open)
RECURSIVE ById(_)
ById(rows) ==
    IF rows = {}
    THEN <<>>
    ELSE LET first == CHOOSE x \in rows : \A y \in rows : x.id <= y.id
         IN  <<first>> \o ById(rows \ {first})

\* scanTopics: one Topic for each row
scanTopics(rows) ==
    [k \in 1..Len(rows) |->
        [ID |-> rows[k].id, Name |-> rows[k].name, ProjectID |-> rows[k].project_id,
         FullResourceName |-> rows[k].full_resource_name,
         Metadata |-> rows[k].metadata]]

\* a scanSubscriptions that scans the two resource names into each other's
\* field
scanSubscriptions_SwapsNames(rows) ==
    [k \in 1..Len(rows) |->
        [ID |-> rows[k].id, Name |-> rows[k].name, ProjectID |-> rows[k].project_id,
         TopicFullResourceName |-> rows[k].full_resource_name,
         FullResourceName |-> rows[k].topic_full_resource_name,
         Metadata |-> rows[k].metadata]]

\* scanSubscriptions: one Subscription for each row
scanSubscriptions(rows) ==
    [k \in 1..Len(rows) |->
        [ID |-> rows[k].id, Name |-> rows[k].name, ProjectID |-> rows[k].project_id,
         TopicFullResourceName |-> rows[k].topic_full_resource_name,
         FullResourceName |-> rows[k].full_resource_name,
         Metadata |-> rows[k].metadata]]

\* the result of a query whose QueryContext fails
QueryFailed == [out |-> <<>>, err |-> StorageError]

\* a GetTopics without the WHERE clause
GetTopics_EveryProject(d, projectID, fail) ==
    IF fail = "query"
    THEN QueryFailed
    ELSE [out |-> scanTopics(ById(d.topics)), err |-> NilErr]

\* GetTopics(ctx, projectID): SELECT ... FROM topics WHERE project_id = ?
GetTopics(d, projectID, fail) ==
    IF fail = "query"
    THEN QueryFailed
    ELSE [out |-> scanTopics(ById({r \in d.topics : r.project_id = projectID})),
          err |-> NilErr]

\* a GetAllTopics that asks for each project of the list in turn
RECURSIVE GetAllTopics_PerProject(_, _, _)
GetAllTopics_PerProject(d, projects, fail) ==
    IF fail = "query"
    THEN QueryFailed
    ELSE IF Len(projects) = 0
         THEN [out |-> scanTopics(ById(d.topics)), err |-> NilErr]
         ELSE IF Len(projects) = 1
              THEN GetTopics(d, projects[1], fail)
              ELSE [out |-> GetTopics(d, projects[1], fail).out
                            \o GetAllTopics_PerProject(d, Tail(projects), fail).out,
                    err |-> NilErr]

\* GetAllTopics(ctx, projects): every row for an empty list, else
\* SELECT ... FROM topics WHERE project_id IN (?, ..., ?)
GetAllTopics(d, projects, fail) ==
    IF fail = "query"
    THEN QueryFailed
    ELSE IF Len(projects) = 0
         THEN [out |-> scanTopics(ById(d.topics)), err |-> NilErr]
         ELSE [out |-> scanTopics(ById({r \in d.topics :
                                           \E k \in 1..Len(projects) :
                                               r.project_id = projects[k]})),
               err |-> NilErr]

\* GetSubscriptions(ctx, projectID)
GetSubscriptions(d, projectID, fail) ==
    IF fail = "query"
    THEN QueryFailed
    ELSE [out |-> scanSubscriptions(
                      ById({r \in d.subscriptions : r.project_id = projectID})),
          err |-> NilErr]

\* GetAllSubscriptions(ctx, projects)
GetAllSubscriptions(d, projects, fail) ==
    IF fail = "query"
    THEN QueryFailed
    ELSE IF Len(projects) = 0
         THEN [out |-> scanSubscriptions(ById(d.subscriptions)), err |-> NilErr]
         ELSE [out |-> scanSubscriptions(ById({r \in d.subscriptions :
                                                  \E k \in 1..Len(projects) :
                                                      r.project_id = projects[k]})),
               err |-> NilErr]

\* rd before any query
ReadIdle == [op |-> "", arg |-> <<>>, fail |-> "", out |-> <<>>, err |-> NilErr]

QueryUnused == rd = ReadIdle

\* wr before any writer has saved
WritersIdle == [done |-> <<<<>>, <<>>>>]

WritersUnused == wr = WritersIdle

(***************************************************************************)
(* What the callers of the Store did.  ops counts the calls, last is the   *)
(* latest one, topics and subscriptions hold, for each full resource name, *)
(* the argument of the latest Save of it that returned nil, projects holds *)
(* the project IDs of the calls that returned nil; last.known tells        *)
(* whether the project of the latest call was among them before the call.  *)
(***************************************************************************)
NoCall ==
    [op |-> "", project |-> "", known |-> FALSE, key |-> "", fail |-> "",
     err |-> NilErr]

HistEmpty ==
    [ops |-> 0, last |-> NoCall, topics |-> {}, subscriptions |-> {},
     projects |-> {}]

StoreUnused ==
    /\ db = EmptyDB
    /\ now = 0
    /\ hist = HistEmpty

RecordSaveTopic(h, topic, fail, err) ==
    [h EXCEPT !.ops = @ + 1,
              !.last = [op |-> "SaveTopic", project |-> topic.ProjectID,
                        known |-> topic.ProjectID \in h.projects,
                        key |-> topic.FullResourceName, fail |-> fail, err |-> err],
              !.topics = IF err = NilErr
                         THEN {t \in @ : t.FullResourceName # topic.FullResourceName}
                              \cup {topic}
                         ELSE @,
              !.projects = IF err = NilErr THEN @ \cup {topic.ProjectID} ELSE @]

RecordSaveSubscription(h, sub, fail, err) ==
    [h EXCEPT !.ops = @ + 1,
              !.last = [op |-> "SaveSubscription", project |-> sub.ProjectID,
                        known |-> sub.ProjectID \in h.projects,
                        key |-> sub.FullResourceName, fail |-> fail, err |-> err],
              !.subscriptions =
                         IF err = NilErr
                         THEN {t \in @ : t.FullResourceName # sub.FullResourceName}
                              \cup {sub}
                         ELSE @,
              !.projects = IF err = NilErr THEN @ \cup {sub.ProjectID} ELSE @]

RecordUpdate(h, projectID, fail, err) ==
    [h EXCEPT !.ops = @ + 1,
              !.last = [op |-> "UpdateProjectSyncTime", project |-> projectID,
                        known |-> projectID \in h.projects,
                        key |-> "", fail |-> fail, err |-> err],
              !.projects = IF err = NilErr THEN @ \cup {projectID} ELSE @]

(***************************************************************************)
(* The Collector.  The Pub/Sub API holds, for each project, a list of      *)
(* topics and a list of subscriptions with their full resource names; a    *)
(* listing walks an iterator over it, one rate-limiter token per fetch,    *)
(* and saves each item as it arrives.                                      *)
(***************************************************************************)
\* "projects/"
FmtProjects ==
    <<"p", "r", "o", "j", "e", "c", "t", "s", "/">>

\* "/topics/"
FmtTopicsSegment ==
    <<"/", "t", "o", "p", "i", "c", "s", "/">>

\* "/subscriptions/"
FmtSubscriptionsSegment ==
    <<"/", "s", "u", "b", "s", "c", "r", "i", "p", "t", "i", "o", "n", "s", "/">>

\* "failed to create pubsub client for project "
FmtCreateClient ==
    <<"f", "a", "i", "l", "e", "d", " ", "t", "o", " ", "c", "r", "e", "a", "t", "e",
      " ", "p", "u", "b", "s", "u", "b", " ", "c", "l", "i", "e", "n", "t", " ", "f",
      "o", "r", " ", "p", "r", "o", "j", "e", "c", "t", " ">>

\* ": "
FmtColon ==
    <<":", " ">>

\* "failed to collect topics: "
FmtCollectTopics ==
    <<"f", "a", "i", "l", "e", "d", " ", "t", "o", " ", "c", "o", "l", "l", "e", "c",
      "t", " ", "t", "o", "p", "i", "c", "s", ":", " ">>

\* "failed to collect subscriptions: "
FmtCollectSubscriptions ==
    <<"f", "a", "i", "l", "e", "d", " ", "t", "o", " ", "c", "o", "l", "l", "e", "c",
      "t", " ", "s", "u", "b", "s", "c", "r", "i", "p", "t", "i", "o", "n", "s", ":",
      " ">>

\* "failed to update project sync time: "
FmtUpdateSyncTime ==
    <<"f", "a", "i", "l", "e", "d", " ", "t", "o", " ", "u", "p", "d", "a", "t", "e",
      " ", "p", "r", "o", "j", "e", "c", "t", " ", "s", "y", "n", "c", " ", "t", "i",
      "m", "e", ":", " ">>

\* "failed to iterate topics: "
FmtIterateTopics ==
    <<"f", "a", "i", "l", "e", "d", " ", "t", "o", " ", "i", "t", "e", "r", "a", "t",
      "e", " ", "t", "o", "p", "i", "c", "s", ":", " ">>

\* "failed to save topic "
FmtSaveTopic ==
    <<"f", "a", "i", "l", "e", "d", " ", "t", "o", " ", "s", "a", "v", "e", " ", "t",
      "o", "p", "i", "c", " ">>

\* "failed to save subscription "
FmtSaveSubscription ==
    <<"f", "a", "i", "l", "e", "d", " ", "t", "o", " ", "s", "a", "v", "e", " ", "s",
      "u", "b", "s", "c", "r", "i", "p", "t", "i", "o", "n", " ">>

\* "rate: Wait(n=1) exceeds limiter's burst "
FmtExceedsBurst ==
    <<"r", "a", "t", "e", ":", " ", "W", "a", "i", "t", "(", "n", "=", "1", ")", " ",
      "e", "x", "c", "e", "e", "d", "s", " ", "l", "i", "m", "i", "t", "e", "r", "'",
      "s", " ", "b", "u", "r", "s", "t", " ">>

\* "could not find default credentials"
MsgNoCredentials ==
    <<"c", "o", "u", "l", "d", " ", "n", "o", "t", " ", "f", "i", "n", "d", " ", "d",
      "e", "f", "a", "u", "l", "t", " ", "c", "r", "e", "d", "e", "n", "t", "i", "a",
      "l", "s">>

\* "failed to collect "
FmtFailedToCollect ==
    <<"f", "a", "i", "l", "e", "d", " ", "t", "o", " ", "c", "o", "l", "l", "e", "c",
      "t", " ">>

\* " projects"
FmtProjectsFailed ==
    <<" ", "p", "r", "o", "j", "e", "c", "t", "s">>

\* the characters of the project IDs and short names of the model
Chars(name) ==
    CASE name = "p1" -> <<"p", "1">>
      [] name = "p2" -> <<"p", "2">>
      [] name = "p3" -> <<"p", "3">>
      [] name = "t1" -> <<"t", "1">>
      [] name = "s1" -> <<"s", "1">>
      [] name = "s2" -> <<"s", "2">>

\* fmt.Sprintf("projects/%s", projectID)
ProjectPath(projectID) == FmtProjects \o Chars(projectID)

\* the full resource names the API gives
TopicPath(projectID, name) ==
    ProjectPath(projectID) \o FmtTopicsSegment \o Chars(name)

SubscriptionPath(projectID, name) ==
    ProjectPath(projectID) \o FmtSubscriptionsSegment \o Chars(name)

\* strings.Split(fullPath, "/")
RECURSIVE Split(_)
Split(s) ==
    IF \A k \in 1..Len(s) : s[k] # "/"
    THEN <<s>>
    ELSE LET k == CHOOSE j \in 1..Len(s) :
                      s[j] = "/" /\ \A h \in 1..(j - 1) : s[h] # "/"
         IN  <<SubSeq(s, 1, k - 1)>> \o Split(SubSeq(s, k + 1, Len(s)))

\* an extractResourceName that returns the part after the last "/"
extractResourceName_LastPart(fullPath) ==
    IF fullPath = <<>>
    THEN <<>>
    ELSE LET parts == Split(fullPath) IN parts[Len(parts)]

\* the last non-empty part of the path, "" when there is none
extractResourceName(fullPath) ==
    IF fullPath = <<>>
    THEN <<>>
    ELSE LET parts == Split(fullPath)
             filled == {i \in 1..Len(parts) : parts[i] # <<>>}
         IN  IF filled = {} THEN <<>> ELSE parts[Max(filled)]

\* ex before any call
ExtractIdle == [pc |-> "idle", fullPath |-> <<>>, result |-> <<>>]

ExtractUnused == ex = ExtractIdle

\* what ListTopics has for a project: pubsubpb.Topic values
RemoteTopics(projectID) ==
    <<[Name |-> TopicPath(projectID, "t1")]>>

\* what ListSubscriptions has for a project: pubsubpb.Subscription values;
\* s2 of p1 is attached to a topic of p2
RemoteSubscriptions(projectID) ==
    IF projectID = "p1"
    THEN <<[Name |-> SubscriptionPath("p1", "s1"), Topic |-> TopicPath("p1", "t1")],
           [Name |-> SubscriptionPath("p1", "s2"), Topic |-> TopicPath("p2", "t1")]>>
    ELSE <<[Name |-> SubscriptionPath(projectID, "s1"),
            Topic |-> TopicPath(projectID, "t1")]>>

\* the storage.Topic that collectTopics builds from a listed topic
TopicRecord(projectID, topic) ==
    [Name |-> extractResourceName(topic.Name), ProjectID |-> projectID,
     FullResourceName |-> topic.Name, Metadata |-> "{}"]

\* the storage.Subscription that collectSubscriptionsOnce builds
SubscriptionRecord(projectID, sub) ==
    [Name |-> extractResourceName(sub.Name), ProjectID |-> projectID,
     TopicFullResourceName |-> sub.Topic, FullResourceName |-> sub.Name,
     Metadata |-> "{}"]

\* rate.NewLimiter(rate.Limit(rps), int(rps*2)): the burst for a rate given
\* in tenths of a request per second
Burst(rpsTenths) == (rpsTenths * 2) \div 10

\* "rate: Wait(n=1) exceeds limiter's burst 0"
ExceedsBurstError(burst) == ErrorsNew(FmtExceedsBurst \o FormatInt(burst))

\* limiter.Wait(ctx): the errors it can return at the moment it returns.
\* One token is more than a burst of 0 allows; a context that is done gives
\* ctx.Err(); a wait that would last beyond the context's deadline is
\* refused at once.
LimiterWait(burst, c, hasDeadline) ==
    IF burst < 1
    THEN {ExceedsBurstError(burst)}
    ELSE IF c # "live"
         THEN {CtxErr(c)}
         ELSE IF hasDeadline
              THEN {NilErr, ErrorsNew(MsgWouldExceed)}
              ELSE {NilErr}

\* the errors the API returns of its own
RemoteErrors ==
    {StatusError("Unavailable", MsgQuota), StatusError("PermissionDenied", MsgDenied)}

\* the status of an RPC made under a context that is done
RpcContextError(c) ==
    IF c = "canceled"
    THEN StatusError("Canceled", MsgContextCanceled)
    ELSE StatusError("DeadlineExceeded", MsgContextDeadline)

\* it.Next() at position pos: the next item or iterator.Done from the
\* page held, an error of the API, or the error of an RPC made under a
\* context that is done
IteratorNext(items, pos, c) ==
    {IF pos < Len(items)
     THEN [err |-> NilErr, item |-> <<items[pos + 1]>>, ctx |-> FALSE]
     ELSE [err |-> IteratorDone, item |-> <<>>, ctx |-> FALSE]}
    \cup (IF c = "live"
          THEN {[err |-> e, item |-> <<>>, ctx |-> FALSE] : e \in RemoteErrors}
          ELSE {[err |-> RpcContextError(c), item |-> <<>>, ctx |-> TRUE]})

\* a Store call under ctx: s.db.BeginTx(ctx, nil) and s.db.ExecContext(ctx,
\* ...) return ctx.Err() when the context is done
WithContext(c, d, res) ==
    IF c # "live" THEN [db |-> d, err |-> CtxErr(c)] ELSE res

\* the database calls at which the Saves of a listing fail in the model
ListingSaveFails == {"", "commit"}

\* the error of auth.NewPubSubClient
ClientError == ErrorsNew(MsgNoCredentials)

\* fmt.Errorf("failed to create pubsub client for project %s: %w", ...)
CreateClientError(projectID, err) ==
    Errorf(FmtCreateClient \o Chars(projectID) \o FmtColon, err)

\* fmt.Errorf("failed to save topic %s: %w", topicName, err)
SaveTopicError(topicName, err) ==
    Errorf(FmtSaveTopic \o topicName \o FmtColon, err)

\* fmt.Errorf("failed to save subscription %s: %v", subName, err): the text
\* of the Store's error without the error itself
SaveSubscriptionError_Flattened(subName, err) ==
    ErrorsNew(FmtSaveSubscription \o subName \o FmtColon \o err.msg)

\* fmt.Errorf("failed to save subscription %s: %w", subName, err)
SaveSubscriptionError(subName, err) ==
    Errorf(FmtSaveSubscription \o subName \o FmtColon, err)

\* co: pc is the position of the CollectProject call, pos the number of
\* items the current iterator has handed out, steps the steps of
\* CollectProject begun so far, begun the number of subscription listing
\* attempts begun, attempts what ended each of them (where it failed,
\* whether because the context was done, after how many items, and the
\* positions in the list of the items its iterator handed out), fetched
\* those positions for the attempt under way, waits and nexts the limiter
\* waits that returned nil and the it.Next() calls of the listing under way,
\* refused whether its latest limiter wait returned an error, before the
\* projects table as it was when the call was made, result the error
\* returned
CollectorIdle ==
    [pc |-> "idle", project |-> "", deadline |-> FALSE, burst |-> 0, pos |-> 0,
     steps |-> <<>>, attempts |-> <<>>, begun |-> 0, fetched |-> <<>>,
     waits |-> 0, nexts |-> 0, refused |-> FALSE, before |-> {},
     result |-> NilErr]

CollectorUnused == co = CollectorIdle

\* CollectProject returns err
Return(c, err) == [c EXCEPT !.pc = "done", !.result = err]

\* a collectSubscriptionsOnce that goes on with the iterator of the attempt
\* before
BeginListing_Resumes(c) ==
    [c EXCEPT !.pc = "subsWait", !.begun = @ + 1, !.fetched = <<>>,
              !.waits = 0, !.nexts = 0, !.refused = FALSE]

\* collectSubscriptionsOnce is entered: a fresh iterator
BeginListing(c) ==
    [c EXCEPT !.pc = "subsWait", !.pos = 0, !.begun = @ + 1, !.fetched = <<>>,
              !.waits = 0, !.nexts = 0, !.refused = FALSE]

\* a listing that goes on to the fetch whatever the limiter returned
Proceeds_IgnoresError(err) == TRUE

\* if err := c.limiter.Wait(ctx); err != nil { return ... }: the listing
\* goes on to it.Next() when the wait returned nil
Proceeds(err) == err = NilErr

\* c.limiter.Wait(ctx) has returned err
Waited(c, err) ==
    IF err = NilErr
    THEN [c EXCEPT !.waits = @ + 1]
    ELSE [c EXCEPT !.refused = TRUE]

\* it.Next() has been called
Called(c) == [c EXCEPT !.nexts = @ + 1]

\* a CollectProject that goes on to the sync record whatever
\* collectSubscriptions returned
AfterSubscriptions_AlwaysSyncs(c, err) ==
    [c EXCEPT !.pc = "sync", !.steps = Append(@, "UpdateProjectSyncTime")]

\* CollectProject from the return of collectSubscriptions on
AfterSubscriptions(c, err) ==
    IF err # NilErr
    THEN Return(c, Errorf(FmtCollectSubscriptions, err))
    ELSE [c EXCEPT !.pc = "sync", !.steps = Append(@, "UpdateProjectSyncTime")]

\* where the call stands once retryWithBackoff has moved to r: in fn again,
\* back in CollectProject, or in the backoff select
Resume(c, r) ==
    IF r.pc = "call"
    THEN BeginListing(c)
    ELSE IF r.pc = "done"
         THEN AfterSubscriptions(c, r.result)
         ELSE [c EXCEPT !.pc = "backoff"]

\* collectSubscriptionsOnce returns err to retryWithBackoff
EndListing(c, r, err, at, byCtx) ==
    LET r1 == AfterFn(r, err)
        c1 == [c EXCEPT !.attempts = Append(@, [at |-> at, ctx |-> byCtx,
                                                pos |-> c.pos,
                                                fetched |-> c.fetched,
                                                waits |-> c.waits,
                                                nexts |-> c.nexts])]
    IN  [co |-> Resume(c1, r1), rs |-> r1]

(***************************************************************************)
(* The clients map of the Collector and Close.  cc holds the project IDs   *)
(* with a cached client, the result of the latest getClient, the position  *)
(* of the Close call, the clients its loop has visited (closed), those     *)
(* whose Close failed (failed) and its errs slice.                         *)
(***************************************************************************)
\* "failed to close client for project "
FmtCloseClient ==
    <<"f", "a", "i", "l", "e", "d", " ", "t", "o", " ", "c", "l", "o", "s", "e", " ",
      "c", "l", "i", "e", "n", "t", " ", "f", "o", "r", " ", "p", "r", "o", "j", "e",
      "c", "t", " ">>

\* "errors closing clients: "
FmtErrorsClosing ==
    <<"e", "r", "r", "o", "r", "s", " ", "c", "l", "o", "s", "i", "n", "g", " ", "c",
      "l", "i", "e", "n", "t", "s", ":", " ">>

CacheIdle ==
    [clients |-> {}, last |-> NilErr, pc |-> "idle", closed |-> {}, failed |-> {},
     errs |-> <<>>, result |-> NilErr]

CacheUnused == cc = CacheIdle

\* the error of a client.Close() that fails
ClientCloseError == ErrorsNew(MsgReset)

\* fmt.Errorf("failed to close client for project %s: %w", projectID, err)
CloseClientError(projectID, err) ==
    Errorf(FmtCloseClient \o Chars(projectID) \o FmtColon, err)

\* the %v verb of fmt for a []error: the messages between brackets, a space
\* between them
RECURSIVE JoinErrors(_)
JoinErrors(errs) ==
    IF errs = <<>>
    THEN <<>>
    ELSE IF Len(errs) = 1
         THEN errs[1].msg
         ELSE errs[1].msg \o <<" ">> \o JoinErrors(Tail(errs))

FormatErrors(errs) == <<"[">> \o JoinErrors(errs) \o <<"]">>

\* a Close whose loop ends at the first client that fails to close
CloseRemaining_StopsAtFirstError(c) ==
    IF c.errs # <<>> THEN {} ELSE c.clients \ c.closed

\* the clients the range loop of Close has still to visit
CloseRemaining(c) == c.clients \ c.closed

\* the return value of Close
CloseResult(errs) ==
    IF Len(errs) > 0
    THEN ErrorsNew(FmtErrorsClosing \o FormatErrors(errs))
    ELSE NilErr

(***************************************************************************)
(* getClient under concurrent callers.  gc holds the RWMutex of the        *)
(* Collector (the callers that hold it for reading, the caller that holds  *)
(* it for writing, 0 for none), the clients map as a function from project *)
(* ID to client, every write made to the map, the clients closed, and for  *)
(* each caller its project, its position, the client it created and what   *)
(* it returned.  The client that caller k creates is client k; 0 is nil.   *)
(***************************************************************************)
NoCaller ==
    [pid |-> "", pc |-> "idle", newClient |-> 0, client |-> 0, err |-> NilErr]

ClientsIdle ==
    [mu |-> [readers |-> {}, writer |-> 0], clients |-> <<>>, puts |-> <<>>,
     closed |-> {}, g |-> <<>>]

ClientsUnused == gc = ClientsIdle

\* a lookup that finds nothing, whatever the map holds
Exists_NeverFound(clients, projectID) == FALSE

\* _, exists := c.clients[projectID]
Exists(clients, projectID) == projectID \in DOMAIN clients

\* the callers inside c.mu.Lock(), waiting for the mutex
PendingWriters(c) == {k \in DOMAIN c.g : c.g[k].pc = "locking"}

\* c.mu.RLock() returns: no writer holds the mutex and none is waiting for it
CanRLock(c) == c.mu.writer = 0 /\ PendingWriters(c) = {}

\* c.mu.Lock() returns: nobody holds the mutex
CanLock(c) == c.mu.writer = 0 /\ c.mu.readers = {}

\* an RUnlock that is forgotten: the caller goes on holding the read lock
RUnlock_Forgotten(mu, k) == mu

\* c.mu.RUnlock()
RUnlock(mu, k) == [mu EXCEPT !.readers = @ \ {k}]

\* the deferred c.mu.Unlock()
Unlock(mu, k) == [mu EXCEPT !.writer = 0]

\* getClient returns (client, err) to caller k
GetClientReturn(c, k, client, err) ==
    [c EXCEPT !.g[k].pc = "returned", !.g[k].client = client, !.g[k].err = err]

(***************************************************************************)
(* The ProjectPool.  pool holds the fields of the pool (projects, the      *)
(* semaphore as the number of elements in the channel and its capacity,    *)
(* the burst of the rate limiter, the errors map), the position of the     *)
(* CollectAll call (main, next) and its goroutines w, one for each entry   *)
(* of projects, the number of CollectAll calls made on the pool (calls)    *)
(* and the projects whose worker recorded an error in the latest of them   *)
(* (failed).                                                               *)
(***************************************************************************)
PoolIdle ==
    [main |-> "idle", projects |-> <<>>, maxConcurrent |-> 0, burst |-> 0,
     deadline |-> FALSE, next |-> 1, sem |-> 0, w |-> <<>>, errors |-> <<>>,
     calls |-> 0, failed |-> {}, result |-> NilErr]

PoolUnused == pool = PoolIdle

\* NewProjectPool(projects, rps, maxConcurrent), rps in tenths
NewProjectPool(projects, rpsTenths, maxConcurrent) ==
    [PoolIdle EXCEPT !.projects = projects, !.maxConcurrent = maxConcurrent,
                     !.burst = Burst(rpsTenths)]

\* the goroutines CollectAll will start, before the go statements
Goroutines(projects) ==
    [k \in 1..Len(projects) |->
        [pid |-> projects[k], pc |-> "unborn", invoked |-> FALSE, err |-> NilErr]]

\* p.semaphore <- struct{}{} goes through when the channel has room
CanSend_Unbounded(sem, capacity) == TRUE

CanSend(sem, capacity) == sem < capacity

\* a worker that forgets its error: the map stays as it is
MapPut_Forgets(m, k, v) == m

\* p.errors[pid] = err
MapPut(m, k, v) ==
    [q \in DOMAIN m \cup {k} |-> IF q = k THEN v ELSE m[q]]

\* fmt.Errorf("failed to collect %d projects", len(p.errors))
FailedToCollectError(n) ==
    ErrorsNew(FmtFailedToCollect \o FormatInt(n) \o FmtProjectsFailed)

\* a CollectAll that reports the count whatever it is
CollectAllResult_AlwaysSummary(errors) ==
    FailedToCollectError(Cardinality(DOMAIN errors))

\* the return value of CollectAll
CollectAllResult(errors) ==
    IF Cardinality(DOMAIN errors) > 0
    THEN FailedToCollectError(Cardinality(DOMAIN errors))
    ELSE NilErr

\* the steps at which a CollectProject call of a pool worker fails
CollectFails == {"", "client", "topics", "subscriptions", "sync"}

\* collectTopics without a failure: every listed topic saved
RECURSIVE SaveTopics(_, _, _, _)
SaveTopics(d, ts, projectID, items) ==
    IF items = <<>>
    THEN d
    ELSE SaveTopics(SaveTopic(d, ts, TopicRecord(projectID, Head(items)), "").db,
                    ts, projectID, Tail(items))

\* collectSubscriptions without a failure: every listed subscription saved
RECURSIVE SaveSubscriptions(_, _, _, _)
SaveSubscriptions(d, ts, projectID, items) ==
    IF items = <<>>
    THEN d
    ELSE SaveSubscriptions(
             SaveSubscription(d, ts, SubscriptionRecord(projectID, Head(items)), "").db,
             ts, projectID, Tail(items))

\* a whole CollectProject(ctx, projectID) call that fails at step fail (at
\* the first fetch of a listing, with an error that is not retried): the
\* database after it and the error returned
CollectProject(d, ts, projectID, fail, c) ==
    LET denied == StatusError("PermissionDenied", MsgDenied)
        d1 == SaveTopics(d, ts, projectID, RemoteTopics(projectID))
        d2 == SaveSubscriptions(d1, ts, projectID, RemoteSubscriptions(projectID))
    IN  IF fail = "client"
        THEN [db |-> d, err |-> CreateClientError(projectID, ClientError)]
        ELSE IF c # "live"
        THEN [db |-> d,
              err |-> Errorf(FmtCollectTopics, Errorf(FmtRateLimiter, CtxErr(c)))]
        ELSE IF fail = "topics"
        THEN [db |-> d,
              err |-> Errorf(FmtCollectTopics, Errorf(FmtIterateTopics, denied))]
        ELSE IF fail = "subscriptions"
        THEN [db |-> d1,
              err |-> Errorf(FmtCollectSubscriptions,
                             Errorf(FmtIterateSubscriptions, denied))]
        ELSE IF fail = "sync"
        THEN [db |-> d2, err |-> Errorf(FmtUpdateSyncTime, StorageError)]
        ELSE [db |-> UpdateProjectSyncTime(d2, ts, projectID, "").db, err |-> NilErr]

(***************************************************************************)
(* The graph Builder.  Build reads the topics and the subscriptions of the *)
(* given projects with the bulk getters of the Store and makes a node for  *)
(* each, a cluster for each project and an edge for each subscription.     *)
(* Nodes and Clusters are maps, Edges and the Nodes of a cluster slices.   *)
(***************************************************************************)
\* "topic_"
FmtTopicNode == <<"t", "o", "p", "i", "c", "_">>

\* "sub_"
FmtSubNode == <<"s", "u", "b", "_">>

\* "cluster_"
FmtCluster == <<"c", "l", "u", "s", "t", "e", "r", "_">>

NodeTypeTopic == "topic"

NodeTypeSubscription == "subscription"

EdgeTypeSubscribes == "subscribes"

EdgeTypeCrossProject == "cross_project"

\* a node ID made of the name only
TopicNodeID_WithoutProject(project, name) == FmtTopicNode \o name

\* fmt.Sprintf("topic_%s_%s", project, name)
TopicNodeID(project, name) == FmtTopicNode \o project \o <<"_">> \o name

\* fmt.Sprintf("sub_%s_%s", sub.ProjectID, sub.Name)
SubscriptionNodeID(project, name) == FmtSubNode \o project \o <<"_">> \o name

\* parseTopicReference("projects/{project}/topics/{name}"): the project and
\* the short name of the topic
parseTopicReference(ref) ==
    LET parts == Split(ref)
    IN  IF Len(parts) >= 4
        THEN [project |-> parts[2], name |-> parts[4]]
        ELSE [project |-> <<>>, name |-> extractResourceName(ref)]

\* an edge type that never tells a cross-project edge
EdgeTypeOf_AlwaysSubscribes(topicProject, subProject) == EdgeTypeSubscribes

\* edgeType: cross_project when the project of the topic reference is not
\* the project of the subscription
EdgeTypeOf(topicProject, subProject) ==
    IF topicProject # subProject THEN EdgeTypeCrossProject ELSE EdgeTypeSubscribes

\* the graph Build starts with
EmptyGraph == [Nodes |-> <<>>, Edges |-> <<>>, Clusters |-> <<>>]

\* an addToCluster that makes the node the only one of its cluster
addToCluster_KeepsLatest(g, projectID, nodeID) ==
    [g EXCEPT !.Clusters =
        MapPut(@, projectID, [ID |-> FmtCluster \o Chars(projectID),
                              Label |-> projectID, Nodes |-> <<nodeID>>])]

\* addToCluster(g, projectID, nodeID): the cluster is made on first use
addToCluster(g, projectID, nodeID) ==
    LET g1 == IF projectID \in DOMAIN g.Clusters
              THEN g
              ELSE [g EXCEPT !.Clusters =
                      MapPut(@, projectID, [ID |-> FmtCluster \o Chars(projectID),
                                            Label |-> projectID, Nodes |-> <<>>])]
    IN  [g1 EXCEPT !.Clusters =
            MapPut(@, projectID,
                   [g1.Clusters[projectID] EXCEPT !.Nodes = Append(@, nodeID)])]

\* the body of the loop over the topics
AddTopic(g, topic) ==
    LET nodeID == TopicNodeID(Chars(topic.ProjectID), topic.Name)
        g1 == [g EXCEPT !.Nodes =
                 MapPut(@, nodeID, [ID |-> nodeID, Label |-> topic.Name,
                                    Type |-> NodeTypeTopic,
                                    Project |-> topic.ProjectID])]
    IN  addToCluster(g1, topic.ProjectID, nodeID)

RECURSIVE AddTopics(_, _)
AddTopics(g, topics) ==
    IF topics = <<>> THEN g ELSE AddTopics(AddTopic(g, Head(topics)), Tail(topics))

\* the body of the loop over the subscriptions
AddSubscription(g, sub) ==
    LET subNodeID == SubscriptionNodeID(Chars(sub.ProjectID), sub.Name)
        g1 == [g EXCEPT !.Nodes =
                 MapPut(@, subNodeID, [ID |-> subNodeID, Label |-> sub.Name,
                                       Type |-> NodeTypeSubscription,
                                       Project |-> sub.ProjectID])]
        g2 == addToCluster(g1, sub.ProjectID, subNodeID)
        ref == parseTopicReference(sub.TopicFullResourceName)
        topicNodeID == TopicNodeID(ref.project, ref.name)
    IN  [g2 EXCEPT !.Edges =
            Append(@, [From |-> subNodeID, To |-> topicNodeID,
                       Type |-> EdgeTypeOf(ref.project, Chars(sub.ProjectID)),
                       Label |-> "subscribes"])]

RECURSIVE AddSubscriptions(_, _)
AddSubscriptions(g, subs) ==
    IF subs = <<>>
    THEN g
    ELSE AddSubscriptions(AddSubscription(g, Head(subs)), Tail(subs))

\* Build(projects) on database d; fail names the bulk getter that fails.
\* isNil tells a nil *Graph
Build(d, projects, fail) ==
    LET topics == GetAllTopics(d, projects, IF fail = "topics" THEN "query" ELSE "")
        subs == GetAllSubscriptions(d, projects,
                                    IF fail = "subscriptions" THEN "query" ELSE "")
    IN  IF topics.err # NilErr
        THEN [isNil |-> TRUE, graph |-> EmptyGraph, err |-> topics.err]
        ELSE IF subs.err # NilErr
             THEN [isNil |-> TRUE, graph |-> EmptyGraph, err |-> subs.err]
             ELSE [isNil |-> FALSE,
                   graph |-> AddSubscriptions(AddTopics(EmptyGraph, topics.out),
                                              subs.out),
                   err |-> NilErr]

\* gb before any call
BuildIdle ==
    [pc |-> "idle", collects |-> 0, projects |-> <<>>, fail |-> "", isNil |-> TRUE,
     graph |-> EmptyGraph, err |-> NilErr]

BuildUnused == gb = BuildIdle

(***************************************************************************)
(* isRetryable on its own: the argument is drawn from ErrDomain.           *)
(***************************************************************************)
GrpcCodes ==
    {"OK", "Canceled", "Unknown", "InvalidArgument", "DeadlineExceeded", "NotFound",
     "AlreadyExists", "PermissionDenied", "ResourceExhausted", "FailedPrecondition",
     "Aborted", "OutOfRange", "Unimplemented", "Internal", "Unavailable", "DataLoss",
     "Unauthenticated"}

HttpCodes == {400, 401, 403, 404, 409, 429, 500, 502, 503, 504}

\* messages with one of the transient indicators in them, in some case
TransientTexts ==
    {MsgUpperTimeout, MsgTimedOut, MsgTemporary, MsgReset, MsgRefused, MsgPipe,
     MsgContextDeadline, MsgWouldExceed}

\* messages with none
PlainTexts == {MsgQuota, MsgUnknown, MsgDenied, MsgContextCanceled}

LeafErrors ==
    {NilErr, ContextCanceled, ContextDeadlineExceeded, IteratorDone}
    \cup {StatusError(c, d) : c \in GrpcCodes, d \in {MsgQuota, MsgUpperTimeout, MsgReset}}
    \cup {GoogleapiError(h, d) : h \in HttpCodes, d \in {MsgDenied, MsgTimedOut}}
    \cup {ErrorsNew(m) : m \in TransientTexts \cup PlainTexts}

ErrDomain ==
    LeafErrors
    \cup {Errorf(FmtRateLimiter, e) : e \in LeafErrors \ {NilErr}}
    \cup {Errorf(FmtIterateSubscriptions, e) : e \in LeafErrors \ {NilErr}}

ClassifyIdle == [pc |-> "idle", err |-> NilErr, retryable |-> FALSE]

InitClassify ==
    /\ ctx = "live"
    /\ rs = RetryIdle
    /\ StoreUnused
    /\ CollectorUnused
    /\ PoolUnused
    /\ QueryUnused
    /\ WritersUnused
    /\ CacheUnused
    /\ ExtractUnused
    /\ BuildUnused
    /\ ClientsUnused
    /\ cl \in {[pc |-> "input", err |-> e, retryable |-> FALSE] : e \in ErrDomain}

Classify ==
    /\ cl.pc = "input"
    /\ cl' = [cl EXCEPT !.pc = "done", !.retryable = isRetryable(cl.err)]
    /\ UNCHANGED <<ctx, rs, storeVars, co, pool, rd, wr, cc, ex, gb, gc>>

NextClassify == Classify

SpecClassify == InitClassify /\ [][NextClassify]_vars

(***************************************************************************)
(* retryWithBackoff on its own: fn returns any of FnOutcomes, the timer    *)
(* fires and the context is cancelled at any moment.                       *)
(***************************************************************************)
FnOutcomes ==
    {NilErr, ErrorsNew(MsgTemporary), StatusError("Unavailable", MsgQuota),
     GoogleapiError(429, MsgQuota), GoogleapiError(403, MsgDenied), ErrorsNew(MsgUnknown),
     ContextCanceled}

InitRetry ==
    /\ ctx \in {"live", "canceled", "deadline"}
    /\ rs = [RetryStart EXCEPT !.cancelPc = IF ctx = "live" THEN "" ELSE "entry"]
    /\ cl = ClassifyIdle
    /\ StoreUnused
    /\ CollectorUnused
    /\ PoolUnused
    /\ QueryUnused
    /\ WritersUnused
    /\ CacheUnused
    /\ ExtractUnused
    /\ BuildUnused
    /\ ClientsUnused

\* err := fn() and the rest of the loop body up to the select
RetryCallFn ==
    /\ rs.pc = "call"
    /\ \E err \in FnOutcomes : rs' = AfterFn(rs, err)
    /\ UNCHANGED <<ctx, cl, storeVars, co, pool, rd, wr, cc, ex, gb, gc>>

\* the select statement is reached: a ready case is taken (either one when
\* both are ready), and with none ready the goroutine parks
RetrySelect ==
    /\ rs.pc = "select"
    /\ \/ ctx # "live" /\ rs' = DoneCase(rs, ctx)
       \/ rs.timer = "fired" /\ rs' = TimerCase(rs)
       \/ ctx = "live" /\ rs.timer = "armed" /\ rs' = [rs EXCEPT !.pc = "parked"]
    /\ UNCHANGED <<ctx, cl, storeVars, co, pool, rd, wr, cc, ex, gb, gc>>

\* the timer sends on timer.C; a goroutine parked in the select wakes with
\* the timer case
RetryTimerFires ==
    /\ rs.timer = "armed"
    /\ rs' = IF rs.pc = "parked" THEN TimerCase(rs) ELSE [rs EXCEPT !.timer = "fired"]
    /\ UNCHANGED <<ctx, cl, storeVars, co, pool, rd, wr, cc, ex, gb, gc>>

\* the caller cancels, or the deadline passes: ctx.Done() is closed; a
\* goroutine parked in the select wakes with the Done case
RetryCtxCancel ==
    /\ ctx = "live"
    /\ rs.pc \in {"call", "select", "parked"}
    /\ \E c \in {"canceled", "deadline"} :
          /\ ctx' = c
          /\ LET r == [rs EXCEPT !.cancelPc = rs.pc, !.callsAtCancel = Len(rs.returned)]
             IN  rs' = IF rs.pc = "parked" THEN DoneCase(r, c) ELSE r
    /\ UNCHANGED <<cl, storeVars, co, pool, rd, wr, cc, ex, gb, gc>>

NextRetry == RetryCallFn \/ RetrySelect \/ RetryTimerFires \/ RetryCtxCancel

SpecRetry == InitRetry /\ [][NextRetry]_vars

(***************************************************************************)
(* The Store on its own: its callers save any of TopicInputs and           *)
(* SubscriptionInputs and mark any project synced, any call may fail at    *)
(* any of its database calls, and the clock ticks.                         *)
(***************************************************************************)
MaxOps == 3

MaxClock == 1

TopicInputs ==
    {[Name |-> v[1], ProjectID |-> p, FullResourceName |-> f, Metadata |-> v[2]] :
        v \in {<<"t1", "{}">>, <<"t1x", "{\"version\": 2}">>},
        p \in Range(ProjectIDs),
        f \in {"projects/p1/topics/t1", "projects/p2/topics/t1"}}

SubscriptionInputs ==
    {[Name |-> "s1", ProjectID |-> p, TopicFullResourceName |-> tf,
      FullResourceName |-> f, Metadata |-> "{}"] :
        p \in Range(ProjectIDs),
        tf \in {"projects/p2/topics/t1", "projects/p9/topics/t9"},
        f \in {"projects/p1/subscriptions/s1", "projects/p2/subscriptions/s1"}}

EngineUnused ==
    /\ ctx = "live"
    /\ rs = RetryIdle
    /\ cl = ClassifyIdle

InitStore ==
    /\ EngineUnused
    /\ StoreUnused
    /\ CollectorUnused
    /\ PoolUnused
    /\ QueryUnused
    /\ WritersUnused
    /\ CacheUnused
    /\ ExtractUnused
    /\ BuildUnused
    /\ ClientsUnused

StoreSaveTopic ==
    /\ hist.ops < MaxOps
    /\ \E topic \in TopicInputs, fail \in SaveFails :
          LET res == SaveTopic(db, now, topic, fail)
          IN  /\ db' = res.db
              /\ hist' = RecordSaveTopic(hist, topic, fail, res.err)
    /\ UNCHANGED <<now, ctx, rs, cl, co, pool, rd, wr, cc, ex, gb, gc>>

StoreSaveSubscription ==
    /\ hist.ops < MaxOps
    /\ \E sub \in SubscriptionInputs, fail \in SaveFails :
          LET res == SaveSubscription(db, now, sub, fail)
          IN  /\ db' = res.db
              /\ hist' = RecordSaveSubscription(hist, sub, fail, res.err)
    /\ UNCHANGED <<now, ctx, rs, cl, co, pool, rd, wr, cc, ex, gb, gc>>

StoreUpdateProjectSyncTime ==
    /\ hist.ops < MaxOps
    /\ \E p \in Range(ProjectIDs), fail \in {"", "exec"} :
          LET res == UpdateProjectSyncTime(db, now, p, fail)
          IN  /\ db' = res.db
              /\ hist' = RecordUpdate(hist, p, fail, res.err)
    /\ UNCHANGED <<now, ctx, rs, cl, co, pool, rd, wr, cc, ex, gb, gc>>

\* a second passes
StoreTick ==
    /\ now < MaxClock
    /\ now' = now + 1
    /\ UNCHANGED <<db, hist, ctx, rs, cl, co, pool, rd, wr, cc, ex, gb, gc>>

NextStore ==
    StoreSaveTopic \/ StoreSaveSubscription \/ StoreUpdateProjectSyncTime \/ StoreTick

SpecStore == InitStore /\ [][NextStore]_vars

(***************************************************************************)
(* The queries of the Store: after any sequence of Save and                *)
(* UpdateProjectSyncTime calls one query is made, for any of QueryProjects *)
(* or QueryLists, and its result is kept in rd.                            *)
(***************************************************************************)
\* the project IDs asked for; nothing is ever saved for p3
QueryProjects == {"p1", "p2", "p3"}

\* the project lists asked for
QueryLists ==
    {<<>>, <<"p1">>, <<"p2">>, <<"p1", "p2">>, <<"p1", "p1">>, <<"p3">>,
     <<"p3", "p2">>}

InitQuery == InitStore

QuerySaveTopic == rd = ReadIdle /\ StoreSaveTopic

QuerySaveSubscription == rd = ReadIdle /\ StoreSaveSubscription

QueryUpdateProjectSyncTime == rd = ReadIdle /\ StoreUpdateProjectSyncTime

QueryGetTopics ==
    /\ rd = ReadIdle
    /\ \E p \in QueryProjects, fail \in {"", "query"} :
          LET res == GetTopics(db, p, fail)
          IN  rd' = [op |-> "GetTopics", arg |-> <<p>>, fail |-> fail,
                     out |-> res.out, err |-> res.err]
    /\ UNCHANGED <<ctx, rs, cl, storeVars, co, pool, wr, cc, ex, gb, gc>>

QueryGetAllTopics ==
    /\ rd = ReadIdle
    /\ \E ps \in QueryLists, fail \in {"", "query"} :
          LET res == GetAllTopics(db, ps, fail)
          IN  rd' = [op |-> "GetAllTopics", arg |-> ps, fail |-> fail,
                     out |-> res.out, err |-> res.err]
    /\ UNCHANGED <<ctx, rs, cl, storeVars, co, pool, wr, cc, ex, gb, gc>>

QueryGetSubscriptions ==
    /\ rd = ReadIdle
    /\ \E p \in QueryProjects, fail \in {"", "query"} :
          LET res == GetSubscriptions(db, p, fail)
          IN  rd' = [op |-> "GetSubscriptions", arg |-> <<p>>, fail |-> fail,
                     out |-> res.out, err |-> res.err]
    /\ UNCHANGED <<ctx, rs, cl, storeVars, co, pool, wr, cc, ex, gb, gc>>

QueryGetAllSubscriptions ==
    /\ rd = ReadIdle
    /\ \E ps \in QueryLists, fail \in {"", "query"} :
          LET res == GetAllSubscriptions(db, ps, fail)
          IN  rd' = [op |-> "GetAllSubscriptions", arg |-> ps, fail |-> fail,
                     out |-> res.out, err |-> res.err]
    /\ UNCHANGED <<ctx, rs, cl, storeVars, co, pool, wr, cc, ex, gb, gc>>

QueryGetAllProjects ==
    /\ rd = ReadIdle
    /\ \E fail \in {"", "query"} :
          rd' = IF fail = "query"
                THEN [op |-> "GetAllProjects", arg |-> <<>>, fail |-> fail,
                      out |-> <<>>, err |-> StorageError]
                ELSE [op |-> "GetAllProjects", arg |-> <<>>, fail |-> fail,
                      out |-> GetAllProjects(db), err |-> NilErr]
    /\ UNCHANGED <<ctx, rs, cl, storeVars, co, pool, wr, cc, ex, gb, gc>>

NextQuery ==
    \/ QuerySaveTopic
    \/ QuerySaveSubscription
    \/ QueryUpdateProjectSyncTime
    \/ QueryGetTopics
    \/ QueryGetAllTopics
    \/ QueryGetSubscriptions
    \/ QueryGetAllSubscriptions
    \/ QueryGetAllProjects

SpecQuery == InitQuery /\ [][NextQuery]_vars

(***************************************************************************)
(* Two collectors saving concurrently.  Each SaveTopic and SaveSubscription *)
(* is one transaction and the database runs one write transaction at a    *)
(* time, so the saves of the two writers interleave as whole calls.  The   *)
(* writers save under different full resource names; a record's project ID *)
(* is free, so both write the same Project records.                        *)
(***************************************************************************)
\* the number of saves of one writer
MaxWrites == 2

Writers == {1, 2}

\* the project a writer collects
OwnProject(w) == ProjectIDs[w]

OtherProject(w) == ProjectIDs[3 - w]

\* the saves a writer makes: a topic, the topic again with another name,
\* metadata and project ID, a subscription, and a save that fails at commit
WriterOps(w) ==
    LET tf == "projects/" \o OwnProject(w) \o "/topics/t1"
        sf == "projects/" \o OwnProject(w) \o "/subscriptions/s1"
        sub == [Name |-> "s1", ProjectID |-> OwnProject(w),
                TopicFullResourceName |-> "projects/p2/topics/t1",
                FullResourceName |-> sf, Metadata |-> "{}"]
    IN  {[kind |-> "topic", fail |-> "",
          rec |-> [Name |-> "t1", ProjectID |-> OwnProject(w),
                   FullResourceName |-> tf, Metadata |-> "{}"]],
         [kind |-> "topic", fail |-> "",
          rec |-> [Name |-> "t1x", ProjectID |-> OtherProject(w),
                   FullResourceName |-> tf, Metadata |-> "{\"version\": 2}"]],
         [kind |-> "subscription", fail |-> "", rec |-> sub],
         [kind |-> "subscription", fail |-> "commit", rec |-> sub]}

\* the database after one save of a writer
ApplyWrite(d, ts, op) ==
    IF op.kind = "topic"
    THEN SaveTopic(d, ts, op.rec, op.fail).db
    ELSE SaveSubscription(d, ts, op.rec, op.fail).db

\* the database after a sequence of saves made one after the other
RECURSIVE Replay(_, _)
Replay(d, ops) ==
    IF ops = <<>> THEN d ELSE Replay(ApplyWrite(d, 0, Head(ops)), Tail(ops))

InitWriters == InitStore

WriterSaves(w) ==
    /\ Len(wr.done[w]) < MaxWrites
    /\ \E op \in WriterOps(w) :
          /\ db' = ApplyWrite(db, now, op)
          /\ wr' = [wr EXCEPT !.done[w] = Append(@, op)]
    /\ UNCHANGED <<now, hist, ctx, rs, cl, co, pool, rd, cc, ex, gb, gc>>

WriterOneSaves == WriterSaves(1)

WriterTwoSaves == WriterSaves(2)

\* a second passes
WritersTick ==
    /\ now < MaxClock
    /\ now' = now + 1
    /\ UNCHANGED <<db, hist, ctx, rs, cl, co, pool, rd, wr, cc, ex, gb, gc>>

NextWriters == WriterOneSaves \/ WriterTwoSaves \/ WritersTick

SpecWriters == InitWriters /\ [][NextWriters]_vars

(***************************************************************************)
(* One CollectProject call: the client may fail to be created, every       *)
(* limiter wait, fetch and Store call may fail, the backoff timer fires    *)
(* and the context is cancelled (or its deadline passes) at any moment.    *)
(***************************************************************************)
\* the rates of the model, in tenths of a request per second: 0.4 and 1.0
RpsTenths == {4, 10}

InitCollect ==
    /\ ctx \in {"live", "canceled"}
    /\ rs = RetryIdle
    /\ cl = ClassifyIdle
    /\ StoreUnused
    /\ PoolUnused
    /\ QueryUnused
    /\ WritersUnused
    /\ CacheUnused
    /\ ExtractUnused
    /\ BuildUnused
    /\ ClientsUnused
    /\ co \in {[CollectorIdle EXCEPT !.pc = "getClient", !.project = p,
                                     !.deadline = d, !.burst = Burst(t)] :
                  p \in Range(ProjectIDs), d \in BOOLEAN, t \in RpsTenths}

\* c.getClient(ctx, projectID)
CollectGetClient ==
    /\ co.pc = "getClient"
    /\ \/ co' = [co EXCEPT !.pc = "topicsWait", !.pos = 0,
                           !.steps = <<"getClient", "collectTopics">>]
       \/ co' = Return([co EXCEPT !.steps = <<"getClient">>],
                       CreateClientError(co.project, ClientError))
    /\ UNCHANGED <<ctx, rs, cl, storeVars, pool, rd, wr, cc, ex, gb, gc>>

\* collectTopics: c.limiter.Wait(ctx)
CollectTopicsWait ==
    /\ co.pc = "topicsWait"
    /\ \E e \in LimiterWait(co.burst, ctx, co.deadline) :
          co' = IF Proceeds(e)
                THEN [Waited(co, e) EXCEPT !.pc = "topicsNext"]
                ELSE Return(Waited(co, e),
                            Errorf(FmtCollectTopics, Errorf(FmtRateLimiter, e)))
    /\ UNCHANGED <<ctx, rs, cl, storeVars, pool, rd, wr, cc, ex, gb, gc>>

\* collectTopics: it.Next() and the SaveTopic of the item; at the end of
\* the list CollectProject goes on to collectSubscriptions
CollectTopicsNext ==
    /\ co.pc = "topicsNext"
    /\ \E out \in IteratorNext(RemoteTopics(co.project), co.pos, ctx) :
          \/ /\ out.err = IteratorDone
             /\ rs' = RetryStart
             /\ co' = BeginListing([co EXCEPT !.steps = Append(@, "collectSubscriptions")])
             /\ UNCHANGED storeVars
          \/ /\ out.err \notin {NilErr, IteratorDone}
             /\ co' = Return(Called(co), Errorf(FmtCollectTopics,
                                                Errorf(FmtIterateTopics, out.err)))
             /\ UNCHANGED <<rs, storeVars>>
          \/ /\ out.err = NilErr
             /\ \E fail \in ListingSaveFails :
                   LET topic == TopicRecord(co.project, out.item[1])
                       res   == WithContext(ctx, db, SaveTopic(db, now, topic, fail))
                   IN  /\ db' = res.db
                       /\ hist' = RecordSaveTopic(hist, topic, fail, res.err)
                       /\ co' = IF res.err = NilErr
                                THEN [Called(co) EXCEPT !.pc = "topicsWait",
                                                        !.pos = @ + 1]
                                ELSE Return(Called(co),
                                            Errorf(FmtCollectTopics,
                                                   SaveTopicError(topic.Name, res.err)))
             /\ UNCHANGED <<rs, now>>
    /\ UNCHANGED <<ctx, cl, pool, rd, wr, cc, ex, gb, gc>>

\* collectSubscriptionsOnce: c.limiter.Wait(ctx)
CollectSubscriptionsWait ==
    /\ co.pc = "subsWait"
    /\ \E e \in LimiterWait(co.burst, ctx, co.deadline) :
          IF Proceeds(e)
          THEN /\ co' = [Waited(co, e) EXCEPT !.pc = "subsNext"]
               /\ rs' = rs
          ELSE LET n == EndListing(Waited(co, e), rs, Errorf(FmtRateLimiter, e), "limiter",
                                   e \in {ContextCanceled, ContextDeadlineExceeded})
               IN  /\ co' = n.co
                   /\ rs' = n.rs
    /\ UNCHANGED <<ctx, cl, storeVars, pool, rd, wr, cc, ex, gb, gc>>

\* collectSubscriptionsOnce: it.Next() and the SaveSubscription of the item
CollectSubscriptionsNext ==
    /\ co.pc = "subsNext"
    /\ \E out \in IteratorNext(RemoteSubscriptions(co.project), co.pos, ctx) :
          \/ /\ out.err = IteratorDone
             /\ LET n == EndListing(Called(co), rs, NilErr, "", FALSE)
                IN  co' = n.co /\ rs' = n.rs
             /\ UNCHANGED storeVars
          \/ /\ out.err \notin {NilErr, IteratorDone}
             /\ LET n == EndListing(Called(co), rs,
                                    Errorf(FmtIterateSubscriptions, out.err),
                                    "iterator", out.ctx)
                IN  co' = n.co /\ rs' = n.rs
             /\ UNCHANGED storeVars
          \/ /\ out.err = NilErr
             /\ \E fail \in ListingSaveFails :
                   LET sub == SubscriptionRecord(co.project, out.item[1])
                       res == WithContext(ctx, db, SaveSubscription(db, now, sub, fail))
                       c1  == [Called(co) EXCEPT !.fetched = Append(@, co.pos + 1)]
                       n   == EndListing(c1, rs, SaveSubscriptionError(sub.Name, res.err),
                                         "store", ctx # "live")
                   IN  /\ db' = res.db
                       /\ hist' = RecordSaveSubscription(hist, sub, fail, res.err)
                       /\ IF res.err = NilErr
                          THEN /\ co' = [c1 EXCEPT !.pc = "subsWait", !.pos = @ + 1]
                               /\ rs' = rs
                          ELSE /\ co' = n.co
                               /\ rs' = n.rs
             /\ UNCHANGED now
    /\ UNCHANGED <<ctx, cl, pool, rd, wr, cc, ex, gb, gc>>

\* retryWithBackoff reaches its select
CollectBackoffSelect ==
    /\ co.pc = "backoff"
    /\ rs.pc = "select"
    /\ \/ ctx # "live" /\ rs' = DoneCase(rs, ctx)
       \/ rs.timer = "fired" /\ rs' = TimerCase(rs)
       \/ ctx = "live" /\ rs.timer = "armed" /\ rs' = [rs EXCEPT !.pc = "parked"]
    /\ co' = Resume(co, rs')
    /\ UNCHANGED <<ctx, cl, storeVars, pool, rd, wr, cc, ex, gb, gc>>

\* the backoff timer fires
CollectTimerFires ==
    /\ co.pc = "backoff"
    /\ rs.timer = "armed"
    /\ rs' = IF rs.pc = "parked" THEN TimerCase(rs) ELSE [rs EXCEPT !.timer = "fired"]
    /\ co' = Resume(co, rs')
    /\ UNCHANGED <<ctx, cl, storeVars, pool, rd, wr, cc, ex, gb, gc>>

\* the caller cancels, or the deadline of the context passes
CollectCtxCancel ==
    /\ ctx = "live"
    /\ co.pc \notin {"idle", "done"}
    /\ \E c \in {"canceled"} \cup (IF co.deadline THEN {"deadline"} ELSE {}) :
          /\ ctx' = c
          /\ IF rs.pc = "parked"
             THEN /\ rs' = DoneCase([rs EXCEPT !.cancelPc = rs.pc,
                                               !.callsAtCancel = Len(rs.returned)], c)
                  /\ co' = Resume(co, rs')
             ELSE /\ rs' = rs
                  /\ co' = co
    /\ UNCHANGED <<cl, storeVars, pool, rd, wr, cc, ex, gb, gc>>

\* c.storage.UpdateProjectSyncTime(ctx, projectID) and the return
CollectSync ==
    /\ co.pc = "sync"
    /\ \E fail \in {"", "exec"} :
          LET res == WithContext(ctx, db, UpdateProjectSyncTime(db, now, co.project, fail))
          IN  /\ db' = res.db
              /\ hist' = RecordUpdate(hist, co.project, fail, res.err)
              /\ co' = Return(co, IF res.err = NilErr
                                  THEN NilErr
                                  ELSE Errorf(FmtUpdateSyncTime, res.err))
    /\ UNCHANGED <<now, ctx, rs, cl, pool, rd, wr, cc, ex, gb, gc>>

NextCollect ==
    \/ CollectGetClient
    \/ CollectTopicsWait
    \/ CollectTopicsNext
    \/ CollectSubscriptionsWait
    \/ CollectSubscriptionsNext
    \/ CollectBackoffSelect
    \/ CollectTimerFires
    \/ CollectCtxCancel
    \/ CollectSync

SpecCollect == InitCollect /\ [][NextCollect]_vars

(***************************************************************************)
(* One CollectProject call on a store that an earlier scan may have        *)
(* filled: the store is empty or holds what a CollectProject call of one   *)
(* of the projects left a second before.                                   *)
(***************************************************************************)
EarlierScans ==
    {EmptyDB} \cup {CollectProject(EmptyDB, 0, q, "", "live").db :
                        q \in Range(ProjectIDs)}

InitRecollect ==
    /\ ctx \in {"live", "canceled"}
    /\ rs = RetryIdle
    /\ cl = ClassifyIdle
    /\ db \in EarlierScans
    /\ now = 1
    /\ hist = HistEmpty
    /\ PoolUnused
    /\ QueryUnused
    /\ WritersUnused
    /\ CacheUnused
    /\ ExtractUnused
    /\ BuildUnused
    /\ ClientsUnused
    /\ co \in {[CollectorIdle EXCEPT !.pc = "getClient", !.project = p,
                                     !.deadline = d, !.burst = Burst(t),
                                     !.before = db.projects] :
                  p \in Range(ProjectIDs), d \in BOOLEAN, t \in RpsTenths}

SpecRecollect == InitRecollect /\ [][NextCollect]_vars

(***************************************************************************)
(* One CollectAll call on a new pool: the goroutines run in any order,     *)
(* any CollectProject call may fail, and the context is cancelled (or its  *)
(* deadline passes) at any moment.                                         *)
(***************************************************************************)
MaxProjects == 2

MaxConcurrent == 2

\* the project lists a pool is made with, repeated IDs included
ProjectLists ==
    UNION {[1..n -> Range(ProjectIDs)] : n \in 0..MaxProjects}

InitPool ==
    /\ ctx \in {"live", "canceled"}
    /\ rs = RetryIdle
    /\ cl = ClassifyIdle
    /\ StoreUnused
    /\ CollectorUnused
    /\ QueryUnused
    /\ WritersUnused
    /\ CacheUnused
    /\ ExtractUnused
    /\ BuildUnused
    /\ ClientsUnused
    /\ pool \in {[NewProjectPool(ps, t, m) EXCEPT !.main = "loop", !.deadline = d,
                                                  !.w = Goroutines(ps),
                                                  !.calls = 1] :
                    ps \in ProjectLists, t \in RpsTenths, m \in 0..MaxConcurrent,
                    d \in BOOLEAN}

\* one iteration of the loop: wg.Add(1) and the go statement
PoolSpawn ==
    /\ pool.main = "loop"
    /\ pool.next <= Len(pool.projects)
    /\ pool' = [pool EXCEPT !.w[pool.next].pc = "acquire", !.next = @ + 1]
    /\ UNCHANGED <<ctx, rs, cl, storeVars, co, rd, wr, cc, ex, gb, gc>>

\* p.semaphore <- struct{}{}
PoolAcquire ==
    /\ \E k \in 1..Len(pool.w) :
          /\ pool.w[k].pc = "acquire"
          /\ CanSend(pool.sem, pool.maxConcurrent)
          /\ pool' = [pool EXCEPT !.sem = @ + 1, !.w[k].pc = "limiter"]
    /\ UNCHANGED <<ctx, rs, cl, storeVars, co, rd, wr, cc, ex, gb, gc>>

\* p.rateLimiter.Wait(ctx) returns; its error goes into the errors map
PoolLimiterWait ==
    /\ \E k \in 1..Len(pool.w) :
          /\ pool.w[k].pc = "limiter"
          /\ \E e \in LimiterWait(pool.burst, ctx, pool.deadline) :
                pool' = IF e = NilErr
                        THEN [pool EXCEPT !.w[k].pc = "collect", !.w[k].invoked = TRUE]
                        ELSE [pool EXCEPT
                                 !.w[k].pc = "release",
                                 !.w[k].err = Errorf(FmtRateLimiter, e),
                                 !.failed = @ \cup {pool.w[k].pid},
                                 !.errors = MapPut(@, pool.w[k].pid,
                                                   Errorf(FmtRateLimiter, e))]
    /\ UNCHANGED <<ctx, rs, cl, storeVars, co, rd, wr, cc, ex, gb, gc>>

\* collector.CollectProject(ctx, pid) returns; its error goes into the
\* errors map
PoolCollectProject ==
    /\ \E k \in 1..Len(pool.w), fail \in CollectFails :
          /\ pool.w[k].pc = "collect"
          /\ LET res == CollectProject(db, now, pool.w[k].pid, fail, ctx)
             IN  /\ db' = res.db
                 /\ pool' = IF res.err = NilErr
                            THEN [pool EXCEPT !.w[k].pc = "release"]
                            ELSE [pool EXCEPT
                                     !.w[k].pc = "release",
                                     !.w[k].err = res.err,
                                     !.failed = @ \cup {pool.w[k].pid},
                                     !.errors = MapPut(@, pool.w[k].pid, res.err)]
    /\ UNCHANGED <<ctx, rs, cl, now, hist, co, rd, wr, cc, ex, gb, gc>>

\* the deferred calls: <-p.semaphore, then wg.Done()
PoolRelease ==
    /\ \E k \in 1..Len(pool.w) :
          /\ pool.w[k].pc = "release"
          /\ pool' = [pool EXCEPT !.sem = @ - 1, !.w[k].pc = "done"]
    /\ UNCHANGED <<ctx, rs, cl, storeVars, co, rd, wr, cc, ex, gb, gc>>

\* wg.Wait() returns when every goroutine is done; CollectAll returns
PoolReturn ==
    /\ pool.main = "loop"
    /\ pool.next > Len(pool.projects)
    /\ \A k \in 1..Len(pool.w) : pool.w[k].pc = "done"
    /\ pool' = [pool EXCEPT !.main = "returned",
                            !.result = CollectAllResult(pool.errors)]
    /\ UNCHANGED <<ctx, rs, cl, storeVars, co, rd, wr, cc, ex, gb, gc>>

\* the caller cancels, or the deadline of the context passes
PoolCtxCancel ==
    /\ ctx = "live"
    /\ pool.main = "loop"
    /\ ctx' \in {"canceled"} \cup (IF pool.deadline THEN {"deadline"} ELSE {})
    /\ UNCHANGED <<rs, cl, storeVars, co, pool, rd, wr, cc, ex, gb, gc>>

NextPool ==
    \/ PoolSpawn
    \/ PoolAcquire
    \/ PoolLimiterWait
    \/ PoolCollectProject
    \/ PoolRelease
    \/ PoolReturn
    \/ PoolCtxCancel

SpecPool == InitPool /\ [][NextPool]_vars

\* The same call under the Go scheduler: a goroutine that can take a step
\* takes it in the end, and every limiter wait and every CollectProject
\* call returns.  Nothing obliges the caller to cancel.
FairPool ==
    /\ WF_vars(PoolSpawn)
    /\ WF_vars(PoolAcquire)
    /\ WF_vars(PoolLimiterWait)
    /\ WF_vars(PoolCollectProject)
    /\ WF_vars(PoolRelease)
    /\ WF_vars(PoolReturn)

SpecPoolFair == SpecPool /\ FairPool

(***************************************************************************)
(* A pool whose CollectAll is called again once it has returned, up to     *)
(* MaxCalls times, each call with a context of its own.                    *)
(***************************************************************************)
MaxCalls == 2

\* CollectAll(ctx, collector) is entered again: var wg sync.WaitGroup and
\* the loop over p.projects; the fields of the pool are as the call before
\* left them
PoolCollectAllAgain ==
    /\ pool.main = "returned"
    /\ pool.calls < MaxCalls
    /\ ctx' \in {"live", "canceled"}
    /\ pool' = [pool EXCEPT !.main = "loop", !.next = 1,
                            !.w = Goroutines(pool.projects), !.calls = @ + 1,
                            !.failed = {}, !.result = NilErr]
    /\ UNCHANGED <<rs, cl, storeVars, co, rd, wr, cc, ex, gb, gc>>

NextPoolAgain == NextPool \/ PoolCollectAllAgain

SpecPoolAgain == InitPool /\ [][NextPoolAgain]_vars

(***************************************************************************)
(* A Collector whose getClient is called for any of CacheProjects, any     *)
(* number of times, and whose Close is then called once: the range loop    *)
(* visits the clients in any order and any client.Close() may fail.        *)
(***************************************************************************)
CacheProjects == {"p1", "p2", "p3"}

InitClose == InitStore

\* getClient(ctx, projectID): the cached client, or a new one that is stored
\* unless auth.NewPubSubClient fails
CacheGetClient ==
    /\ cc.pc = "idle"
    /\ \E p \in CacheProjects, fail \in BOOLEAN :
          cc' = IF p \in cc.clients
                THEN [cc EXCEPT !.last = NilErr]
                ELSE IF fail
                     THEN [cc EXCEPT !.last = CreateClientError(p, ClientError)]
                     ELSE [cc EXCEPT !.clients = @ \cup {p}, !.last = NilErr]
    /\ UNCHANGED <<ctx, rs, cl, storeVars, co, pool, rd, wr, ex, gb, gc>>

\* Close: c.mu.Lock(), var errs []error
CloseLock ==
    /\ cc.pc = "idle"
    /\ cc' = [cc EXCEPT !.pc = "closing"]
    /\ UNCHANGED <<ctx, rs, cl, storeVars, co, pool, rd, wr, ex, gb, gc>>

\* one iteration of the range loop: client.Close()
CloseClient ==
    /\ cc.pc = "closing"
    /\ \E p \in CloseRemaining(cc), fail \in BOOLEAN :
          cc' = IF fail
                THEN [cc EXCEPT !.closed = @ \cup {p}, !.failed = @ \cup {p},
                                !.errs = Append(@, CloseClientError(p, ClientCloseError))]
                ELSE [cc EXCEPT !.closed = @ \cup {p}]
    /\ UNCHANGED <<ctx, rs, cl, storeVars, co, pool, rd, wr, ex, gb, gc>>

\* the loop is over: Close returns
CloseReturn ==
    /\ cc.pc = "closing"
    /\ CloseRemaining(cc) = {}
    /\ cc' = [cc EXCEPT !.pc = "returned", !.result = CloseResult(cc.errs)]
    /\ UNCHANGED <<ctx, rs, cl, storeVars, co, pool, rd, wr, ex, gb, gc>>

NextClose == CacheGetClient \/ CloseLock \/ CloseClient \/ CloseReturn

SpecClose == InitClose /\ [][NextClose]_vars

(***************************************************************************)
(* MaxCallers goroutines call getClient on one Collector, each once and    *)
(* for any of ClientProjects; they run in any order and any                *)
(* auth.NewPubSubClient call may fail.                                     *)
(***************************************************************************)
MaxCallers == 2

ClientProjects == {"p1", "p2"}

Callers == 1..MaxCallers

InitClients ==
    /\ ctx = "live"
    /\ rs = RetryIdle
    /\ cl = ClassifyIdle
    /\ StoreUnused
    /\ CollectorUnused
    /\ PoolUnused
    /\ QueryUnused
    /\ WritersUnused
    /\ CacheUnused
    /\ ExtractUnused
    /\ BuildUnused
    /\ gc = [ClientsIdle EXCEPT !.g = [k \in Callers |-> NoCaller]]

\* caller k enters getClient(ctx, projectID): c.mu.RLock()
GetClientRLock(k) ==
    /\ gc.g[k].pc = "idle"
    /\ CanRLock(gc)
    /\ \E p \in ClientProjects :
          gc' = [gc EXCEPT !.g[k].pid = p, !.g[k].pc = "rlocked",
                           !.mu.readers = @ \cup {k}]
    /\ UNCHANGED <<ctx, rs, cl, storeVars, co, pool, rd, wr, cc, ex, gb>>

\* client, exists := c.clients[projectID]; c.mu.RUnlock(); the cached
\* client is returned, or auth.NewPubSubClient is called
GetClientRead(k) ==
    /\ gc.g[k].pc = "rlocked"
    /\ LET c1 == [gc EXCEPT !.mu = RUnlock(@, k)]
       IN  gc' = IF Exists(gc.clients, gc.g[k].pid)
                 THEN GetClientReturn(c1, k, gc.clients[gc.g[k].pid], NilErr)
                 ELSE [c1 EXCEPT !.g[k].pc = "creating"]
    /\ UNCHANGED <<ctx, rs, cl, storeVars, co, pool, rd, wr, cc, ex, gb>>

\* auth.NewPubSubClient returns: the error is returned, or c.mu.Lock() is
\* called
GetClientCreate(k) ==
    /\ gc.g[k].pc = "creating"
    /\ \/ gc' = GetClientReturn(gc, k, 0,
                                CreateClientError(gc.g[k].pid, ClientError))
       \/ gc' = [gc EXCEPT !.g[k].pc = "locking", !.g[k].newClient = k]
    /\ UNCHANGED <<ctx, rs, cl, storeVars, co, pool, rd, wr, cc, ex, gb>>

\* c.mu.Lock() returns
GetClientLock(k) ==
    /\ gc.g[k].pc = "locking"
    /\ CanLock(gc)
    /\ gc' = [gc EXCEPT !.g[k].pc = "locked", !.mu.writer = k]
    /\ UNCHANGED <<ctx, rs, cl, storeVars, co, pool, rd, wr, cc, ex, gb>>

\* the second look at the map: the client of another caller is there, the
\* new client is closed and the other returned; or the new client is stored
\* and returned.  The deferred Unlock runs
GetClientStore(k) ==
    /\ gc.g[k].pc = "locked"
    /\ LET pid == gc.g[k].pid
           new == gc.g[k].newClient
           c1  == [gc EXCEPT !.mu = Unlock(@, k)]
       IN  gc' = IF Exists(gc.clients, pid)
                 THEN GetClientReturn([c1 EXCEPT !.closed = @ \cup {new}],
                                      k, gc.clients[pid], NilErr)
                 ELSE GetClientReturn(
                          [c1 EXCEPT !.clients = MapPut(@, pid, new),
                                     !.puts = Append(@, [pid |-> pid, client |-> new])],
                          k, new, NilErr)
    /\ UNCHANGED <<ctx, rs, cl, storeVars, co, pool, rd, wr, cc, ex, gb>>

NextClients ==
    \E k \in Callers :
        \/ GetClientRLock(k)
        \/ GetClientRead(k)
        \/ GetClientCreate(k)
        \/ GetClientLock(k)
        \/ GetClientStore(k)

SpecClients == InitClients /\ [][NextClients]_vars

(***************************************************************************)
(* extractResourceName on its own: the argument is any string of at most   *)
(* MaxPathLen characters of PathChars.                                     *)
(***************************************************************************)
MaxPathLen == 4

PathChars == {"/", "a", "b"}

Paths == UNION {[1..n -> PathChars] : n \in 0..MaxPathLen}

InitExtract ==
    /\ ctx = "live"
    /\ rs = RetryIdle
    /\ cl = ClassifyIdle
    /\ StoreUnused
    /\ CollectorUnused
    /\ PoolUnused
    /\ QueryUnused
    /\ WritersUnused
    /\ CacheUnused
    /\ BuildUnused
    /\ ClientsUnused
    /\ ex \in {[ExtractIdle EXCEPT !.fullPath = s] : s \in Paths}

Extract ==
    /\ ex.pc = "idle"
    /\ ex' = [ex EXCEPT !.pc = "done", !.result = extractResourceName(ex.fullPath)]
    /\ UNCHANGED <<ctx, rs, cl, storeVars, co, pool, rd, wr, cc, gb, gc>>

NextExtract == Extract

SpecExtract == InitExtract /\ [][NextExtract]_vars

(***************************************************************************)
(* Build after the Collector has filled the store: up to MaxCollects       *)
(* CollectProject calls, each of which may fail at any step and so leave a *)
(* partial scan, then one Build for any of BuildLists.                     *)
(***************************************************************************)
MaxCollects == 2

\* the project lists Build is called with
BuildLists == {<<>>, <<"p1">>, <<"p2">>, <<"p1", "p2">>, <<"p1", "p1">>}

BuildFails == {"", "topics", "subscriptions"}

InitBuild == InitStore

\* one CollectProject call from beginning to end
BuildCollectProject ==
    /\ gb.pc = "idle"
    /\ gb.collects < MaxCollects
    /\ \E p \in Range(ProjectIDs), fail \in CollectFails :
          db' = CollectProject(db, now, p, fail, "live").db
    /\ gb' = [gb EXCEPT !.collects = @ + 1]
    /\ UNCHANGED <<now, hist, ctx, rs, cl, co, pool, rd, wr, cc, ex, gc>>

\* Build(projects)
BuildGraph ==
    /\ gb.pc = "idle"
    /\ \E projects \in BuildLists, fail \in BuildFails :
          LET res == Build(db, projects, fail)
          IN  gb' = [gb EXCEPT !.pc = "returned", !.projects = projects,
                               !.fail = fail, !.isNil = res.isNil,
                               !.graph = res.graph, !.err = res.err]
    /\ UNCHANGED <<ctx, rs, cl, storeVars, co, pool, rd, wr, cc, ex, gc>>

NextBuild == BuildCollectProject \/ BuildGraph

SpecBuild == InitBuild /\ [][NextBuild]_vars

(***************************************************************************)
(* Claims about the retry/classification engine.                           *)
(***************************************************************************)

\* what the repository's test asserts of the error after three retryable
\* failures: assert.Contains(err.Error(), "max retries exceeded")
IsMaxRetriesExceeded(err) ==
    Contains(err.msg, MsgMaxRetriesExceeded)

NeverCancelled == ctx = "live" /\ rs.cancelPc = ""

EveryInvocationRetryable ==
    /\ rs.returned # <<>>
    /\ \A k \in 1..Len(rs.returned) : isRetryable(rs.returned[k])

\* C1: with a context that is never cancelled fn is invoked at most 3 times;
\* when every invocation fails with a retryable error it is invoked exactly
\* 3 times and the result is a "max retries exceeded" error that wraps the
\* error of the third invocation.
C1_RetryBudget ==
    NeverCancelled =>
        /\ Len(rs.returned) <= 3
        /\ (rs.pc = "done" /\ EveryInvocationRetryable) =>
              /\ Len(rs.returned) = 3
              /\ IsMaxRetriesExceeded(rs.result)
              /\ rs.result.inner = <<rs.returned[3]>>

\* The part of C1 that the code keeps: the count of invocations and the
\* wrapping of the third error; the text is "max retries (3) exceeded, ...".
C1_BudgetAndWrapping ==
    NeverCancelled =>
        /\ Len(rs.returned) <= 3
        /\ (rs.pc = "done" /\ EveryInvocationRetryable) =>
              /\ Len(rs.returned) = 3
              /\ rs.result = MaxRetriesError(3, rs.returned[3])
              /\ rs.result.inner = <<rs.returned[3]>>

C1_Exhausted ==
    /\ rs.pc = "done"
    /\ NeverCancelled
    /\ EveryInvocationRetryable

\* C2: when fn returns a non-retryable error on its k-th invocation, that
\* invocation is the last one, the call has returned exactly that error
\* (no wrapper around it), and no backoff wait follows it: no timer is
\* armed and only the k-1 earlier waits were made.
C2_NonRetryableReturnsAtOnce ==
    \A k \in 1..Len(rs.returned) :
        (rs.returned[k] # NilErr /\ ~isRetryable(rs.returned[k])) =>
            /\ k = Len(rs.returned)
            /\ rs.pc = "done"
            /\ rs.result = rs.returned[k]
            /\ rs.timer = "none"
            /\ Len(rs.slept) = k - 1

C2_SecondInvocationNonRetryable ==
    /\ Len(rs.returned) = 2
    /\ rs.returned[2] # NilErr
    /\ ~isRetryable(rs.returned[2])
    /\ rs.pc = "done"

\* C3: when the context is cancelled while the call is parked in the
\* select of a backoff sleep, the call returns ctx.Err() - the context's
\* own error, not the "max retries" wrapper - and fn is not invoked after
\* the cancellation.
C3_CancelDuringSleep ==
    rs.cancelPc = "parked" =>
        /\ rs.pc = "done"
        /\ rs.result = CtxErr(ctx)
        /\ rs.result \in {ContextCanceled, ContextDeadlineExceeded}
        /\ Len(rs.returned) = rs.callsAtCancel

C3_CancelledInSecondSleep ==
    /\ rs.cancelPc = "parked"
    /\ rs.callsAtCancel = 2
    /\ rs.pc = "done"

\* The verdict C4 gives for an error, read off the error's structure: the
\* innermost error, whether err wraps it, and whether its text is one of
\* those with a transient indicator in it.
RECURSIVE Innermost(_)
Innermost(err) ==
    IF err.inner = <<>> THEN err ELSE Innermost(err.inner[1])

ExpectedRetryable(err) ==
    LET leaf == Innermost(err)
        direct == err.inner = <<>>
    IN  CASE err = NilErr -> FALSE
          [] direct /\ leaf.ident \in {"context.Canceled", "context.DeadlineExceeded"} -> FALSE
          [] leaf.grpcCode \in {"Unavailable", "ResourceExhausted", "DeadlineExceeded"} -> TRUE
          [] leaf.grpcCode \in {"PermissionDenied", "Unauthenticated", "NotFound",
                                "InvalidArgument"} -> FALSE
          [] direct /\ leaf.httpCode \in {429, 502, 503, 504} -> TRUE
          [] direct /\ leaf.httpCode \in {400, 401, 403, 404} -> FALSE
          [] OTHER -> leaf.text \in TransientTexts

C6_UpsertByFullResourceName ==
    /\ \A r1, r2 \in db.topics :
          r1.full_resource_name = r2.full_resource_name => r1 = r2
    /\ {r.full_resource_name : r \in db.topics}
          = {t.FullResourceName : t \in hist.topics}
    /\ \A r \in db.topics : \A t \in hist.topics :
          t.FullResourceName = r.full_resource_name =>
              /\ r.name = t.Name
              /\ r.project_id = t.ProjectID
              /\ r.metadata = t.Metadata
    /\ \A r1, r2 \in db.subscriptions :
          r1.full_resource_name = r2.full_resource_name => r1 = r2
    /\ {r.full_resource_name : r \in db.subscriptions}
          = {t.FullResourceName : t \in hist.subscriptions}
    /\ \A r \in db.subscriptions : \A t \in hist.subscriptions :
          t.FullResourceName = r.full_resource_name =>
              /\ r.name = t.Name
              /\ r.project_id = t.ProjectID
              /\ r.topic_full_resource_name = t.TopicFullResourceName
              /\ r.metadata = t.Metadata

\* the same topic saved a second time, with other metadata
C6_TopicSavedAgain ==
    /\ Cardinality(db.topics) = 1
    /\ \E r \in db.topics : r.id = 2 /\ r.metadata = "{\"version\": 2}"
    /\ hist.last.op = "SaveTopic"
    /\ hist.last.err = NilErr

\* C7: a SaveTopic or SaveSubscription call that returns an error - from
\* BeginTx, the project upsert, the resource upsert or Commit - leaves the
\* projects table and the resource tables as they were; one that returns
\* nil has written the project row and the resource row.
C7_SaveIsAtomic ==
    [][(hist'.ops = hist.ops + 1 /\ hist'.last.op \in {"SaveTopic", "SaveSubscription"}) =>
          IF hist'.last.err # NilErr
          THEN /\ db'.projects = db.projects
               /\ db'.topics = db.topics
               /\ db'.subscriptions = db.subscriptions
          ELSE /\ [project_id |-> hist'.last.project, last_synced |-> now] \in db'.projects
               /\ hist'.last.op = "SaveTopic" =>
                     \E r \in db'.topics :
                         /\ r.full_resource_name = hist'.last.key
                         /\ r.project_id = hist'.last.project
                         /\ r.id \notin {q.id : q \in db.topics}
               /\ hist'.last.op = "SaveSubscription" =>
                     \E r \in db'.subscriptions :
                         /\ r.full_resource_name = hist'.last.key
                         /\ r.project_id = hist'.last.project
                         /\ r.id \notin {q.id : q \in db.subscriptions}
      ]_vars

\* a SaveTopic for a project not yet stored fails at the topic upsert, after
\* its project upsert went through
C7_FailedAtResourceUpsert ==
    /\ hist.last.op = "SaveTopic"
    /\ hist.last.fail = "resource"
    /\ hist.last.err # NilErr
    /\ db.topics # {}
    /\ hist.last.project \notin {r.project_id : r \in db.projects}

\* C8: in every state of the store every project ID of a stored topic or
\* subscription is among the project IDs GetAllProjects returns.
C8_ProjectRecordForEveryResource ==
    /\ \A r \in db.topics : r.project_id \in Range(GetAllProjects(db))
    /\ \A r \in db.subscriptions : r.project_id \in Range(GetAllProjects(db))

\* topics and subscriptions of two projects, then a sync mark
C8_TwoProjectsStored ==
    /\ \E r \in db.topics : r.project_id = "p1"
    /\ \E r \in db.subscriptions : r.project_id = "p2"
    /\ hist.last.op = "UpdateProjectSyncTime"
    /\ hist.last.err = NilErr
    /\ Len(GetAllProjects(db)) = 2

(***************************************************************************)
(* Claims about the Collector.                                             *)
(***************************************************************************)

\* the k-th subscription listing attempt ended in the limiter wait or in the
\* fetch because the caller's context was done
EndedByCaller(k) ==
    /\ co.attempts[k].ctx
    /\ co.attempts[k].at \in {"limiter", "iterator"}

\* C5: when a subscription listing attempt ends in its limiter wait or in
\* its fetch because the caller cancelled or the caller's deadline passed,
\* the error is not treated as retryable: no backoff wait follows, it is
\* the last attempt begun, and CollectProject has returned an error.
C5_CallerCancellationNotRetried ==
    \A k \in 1..Len(co.attempts) :
        EndedByCaller(k) =>
            /\ k = Len(co.attempts)
            /\ co.begun = k
            /\ rs.pc = "done"
            /\ Len(rs.slept) = k - 1
            /\ co.pc = "done"
            /\ co.result # NilErr

\* The part of C5 that the code keeps: a cancellation (context.Canceled)
\* that ends an attempt is not retried, and whatever ends an attempt because
\* the context is done, CollectProject never returns nil after it.
C5_CancellationNotRetried ==
    \A k \in 1..Len(co.attempts) :
        EndedByCaller(k) =>
            /\ ctx = "canceled" =>
                  /\ k = Len(co.attempts)
                  /\ co.begun = k
                  /\ co.pc = "done"
            /\ co.pc = "done" => co.result # NilErr

\* a listing attempt follows one that the passing of the caller's deadline
\* ended
C5_ListingAfterDeadline ==
    \E k \in 1..Len(co.attempts) :
        /\ EndedByCaller(k)
        /\ ctx = "deadline"
        /\ co.begun > k

(***************************************************************************)
(* Claims about the ProjectPool.                                           *)
(***************************************************************************)

\* the goroutines that hold a slot of the semaphore: in the limiter wait,
\* in CollectProject, or before the deferred release
HoldingSlot ==
    {k \in 1..Len(pool.w) : pool.w[k].pc \in {"limiter", "collect", "release"}}

\* C9: at every instant the number of workers between the acquisition of
\* a semaphore slot and its release - those whose limiter wait or
\* CollectProject call is in progress among them - is at most
\* maxConcurrent.
C9_AtMostMaxConcurrent ==
    /\ Cardinality(HoldingSlot) <= pool.maxConcurrent
    /\ Cardinality(HoldingSlot) = pool.sem

C9_WorkerWaitsForSlot ==
    \E j, k \in 1..Len(pool.w) :
        /\ pool.w[j].pc = "collect"
        /\ pool.w[k].pc = "acquire"
        /\ pool.sem = pool.maxConcurrent

\* the store holds what the API lists for the project, and its sync record
Collected(d, projectID) ==
    /\ \A k \in 1..Len(RemoteTopics(projectID)) :
          \E r \in d.topics :
              /\ r.full_resource_name = RemoteTopics(projectID)[k].Name
              /\ r.project_id = projectID
    /\ \A k \in 1..Len(RemoteSubscriptions(projectID)) :
          \E r \in d.subscriptions :
              /\ r.full_resource_name = RemoteSubscriptions(projectID)[k].Name
              /\ r.project_id = projectID
    /\ \E r \in d.projects : r.project_id = projectID

\* CollectProject was invoked for every entry of the list, and every entry
\* whose collection succeeded has its data in the store
EveryProjectAttempted ==
    \A k \in 1..Len(pool.w) :
        /\ pool.w[k].invoked
        /\ pool.w[k].err = NilErr => Collected(db, pool.w[k].pid)

\* C10: with a context that is not cancelled (and has no deadline), when
\* CollectAll returns CollectProject has been invoked for every project of
\* the list, whatever failed for the others, and every project whose
\* collection succeeded has its data and its sync record in the store.
C10_FailureIsolation ==
    (pool.main = "returned" /\ ctx = "live" /\ ~pool.deadline) =>
        EveryProjectAttempted

\* The part of C10 that the code keeps: the same, for a pool whose rate
\* limiter has a burst of at least one token.
C10_IsolationWhenAdmitted ==
    (pool.main = "returned" /\ ctx = "live" /\ ~pool.deadline /\ pool.burst >= 1) =>
        EveryProjectAttempted

\* one project failed in CollectProject, the other succeeded
C10_OneFailedOneCollected ==
    /\ pool.main = "returned"
    /\ ctx = "live"
    /\ ~pool.deadline
    /\ \E j, k \in 1..Len(pool.w) :
          /\ pool.w[j].pid # pool.w[k].pid
          /\ pool.w[j].invoked /\ pool.w[j].err # NilErr
          /\ pool.w[k].err = NilErr /\ Collected(db, pool.w[k].pid)

\* the project IDs for which a limiter wait or a CollectProject call of the
\* pool's workers failed
FailedProjects ==
    {pool.w[k].pid : k \in {j \in 1..Len(pool.w) : pool.w[j].err # NilErr}}

\* C11: when CollectAll returns on a new pool, the errors map has exactly
\* the project IDs whose limiter wait or CollectProject call failed, each
\* with an error that one of its failing workers recorded; the result is
\* non-nil exactly when the map is non-empty, and it is then the error
\* "failed to collect N projects" with N the number of entries of the map.
C11_ErrorsMapAndSummary ==
    pool.main = "returned" =>
        /\ DOMAIN pool.errors = FailedProjects
        /\ \A p \in DOMAIN pool.errors :
              \E k \in 1..Len(pool.w) :
                  /\ pool.w[k].pid = p
                  /\ pool.w[k].err # NilErr
                  /\ pool.errors[p] = pool.w[k].err
        /\ (pool.result # NilErr) <=> (DOMAIN pool.errors # {})
        /\ pool.result # NilErr =>
              pool.result.msg = FmtFailedToCollect
                                \o FormatInt(Cardinality(DOMAIN pool.errors))
                                \o FmtProjectsFailed

\* one project failed in its limiter wait or in CollectProject, another
\* succeeded, and CollectAll has returned its summary
C11_OneOfTwoFailed ==
    /\ pool.main = "returned"
    /\ Cardinality(DOMAIN pool.errors) = 1
    /\ Len(pool.w) = 2
    /\ \E k \in 1..Len(pool.w) : pool.w[k].err = NilErr
    /\ pool.result # NilErr

\* the workers that have sent on the semaphore
Admitted ==
    {k \in 1..Len(pool.w) : pool.w[k].pc \in {"limiter", "collect", "release", "done"}}

\* the workers whose p.rateLimiter.Wait has returned
WaitedOnLimiter ==
    {k \in 1..Len(pool.w) : pool.w[k].pc \in {"collect", "release", "done"}}

\* C12: CollectAll on a pool with an empty project list starts no worker:
\* no slot is taken, no limiter wait is made, CollectProject is not
\* invoked, the errors map stays empty and the store unchanged, and the
\* call returns nil - also under a context that is already cancelled.
C12_EmptyListSucceeds ==
    (pool.main \in {"loop", "returned"} /\ pool.projects = <<>>) =>
        /\ pool.w = <<>>
        /\ Admitted = {}
        /\ WaitedOnLimiter = {}
        /\ pool.sem = 0
        /\ DOMAIN pool.errors = {}
        /\ db = EmptyDB
        /\ pool.main = "returned" => pool.result = NilErr

C12_EmptyListReturned ==
    /\ pool.main = "returned"
    /\ pool.projects = <<>>
    /\ ctx = "canceled"

\* strings.HasPrefix(s, prefix)
HasPrefix(s, prefix) ==
    /\ Len(prefix) <= Len(s)
    /\ SubSeq(s, 1, Len(prefix)) = prefix

\* the steps of CollectProject, in the order of the code
StepOrder ==
    <<"getClient", "collectTopics", "collectSubscriptions", "UpdateProjectSyncTime">>

\* every topic the API lists for the project is in the store
TopicsListed(d, projectID) ==
    \A k \in 1..Len(RemoteTopics(projectID)) :
        \E r \in d.topics : r.full_resource_name = RemoteTopics(projectID)[k].Name

\* every subscription the API lists for the project is in the store
SubscriptionsListed(d, projectID) ==
    \A k \in 1..Len(RemoteSubscriptions(projectID)) :
        \E r \in d.subscriptions :
            r.full_resource_name = RemoteSubscriptions(projectID)[k].Name

\* C13: the steps of a CollectProject call begin in the order getClient,
\* collectTopics, collectSubscriptions, UpdateProjectSyncTime, each only
\* after the one before it succeeded: after a failed client creation no
\* Store call is made, after a failed topic listing no subscription listing
\* is begun, and UpdateProjectSyncTime is called only when the topic
\* listing ran to its end and collectSubscriptions returned nil.
C13_StepsInOrder ==
    /\ Len(co.steps) <= Len(StepOrder)
    /\ co.steps = SubSeq(StepOrder, 1, Len(co.steps))
    /\ (co.pc = "done" /\ HasPrefix(co.result.msg, FmtCreateClient)) =>
          /\ hist.ops = 0
          /\ co.begun = 0
    /\ (co.pc = "done" /\ HasPrefix(co.result.msg, FmtCollectTopics)) =>
          /\ co.begun = 0
          /\ rs = RetryIdle
          /\ db.subscriptions = {}
          /\ hist.last.op # "UpdateProjectSyncTime"
    /\ co.begun >= 1 => TopicsListed(db, co.project)
    /\ hist.last.op = "UpdateProjectSyncTime" =>
          /\ TopicsListed(db, co.project)
          /\ SubscriptionsListed(db, co.project)
          /\ rs.pc = "done"
          /\ rs.result = NilErr
          /\ co.pc = "done"

\* the topic listing failed at its second fetch: the call has returned
C13_TopicListingFailed ==
    /\ co.pc = "done"
    /\ HasPrefix(co.result.msg, FmtCollectTopics)
    /\ co.pos = 1

\* the first n topics the API lists for the project are in the store
FirstTopicsStored(d, projectID, n) ==
    \A k \in 1..n :
        \E r \in d.topics :
            /\ r.full_resource_name = RemoteTopics(projectID)[k].Name
            /\ r.project_id = projectID

\* the first n subscriptions the API lists for the project are in the store
FirstSubscriptionsStored(d, projectID, n) ==
    \A k \in 1..n :
        \E r \in d.subscriptions :
            /\ r.full_resource_name = RemoteSubscriptions(projectID)[k].Name
            /\ r.project_id = projectID

\* C14: an item is in the store before the next one is fetched, and stays
\* there: during a listing the items the iterator has handed out so far
\* are stored, and the items 1..k-1 of every attempt that failed at its
\* k-th fetch are stored from then on, also once CollectProject has
\* returned its error.
C14_ItemsSavedAsListed ==
    /\ (co.pc # "idle" /\ co.begun = 0) =>
          FirstTopicsStored(db, co.project, co.pos)
    /\ co.begun >= 1 =>
          /\ FirstTopicsStored(db, co.project, Len(RemoteTopics(co.project)))
          /\ FirstSubscriptionsStored(db, co.project, co.pos)
          /\ \A j \in 1..Len(co.attempts) :
                FirstSubscriptionsStored(db, co.project, co.attempts[j].pos)

\* a subscription listing failed at its second fetch, the first item is
\* stored, and CollectProject has returned an error
C14_FailedAtSecondFetch ==
    /\ co.pc = "done"
    /\ co.result # NilErr
    /\ Len(co.attempts) = 1
    /\ co.attempts[1].at = "iterator"
    /\ co.attempts[1].pos = 1
    /\ FirstSubscriptionsStored(db, co.project, 1)

\* C15: topic listing is retried like subscription listing: when
\* CollectProject returns a topic-listing error under a live context and
\* the failure of the listing was a retryable one, three listing attempts
\* were made, so the error it wraps is the "max retries" error of the retry
\* engine, not the error of a single attempt.
C15_TopicListingRetried ==
    (/\ co.pc = "done"
     /\ ctx = "live"
     /\ HasPrefix(co.result.msg, FmtCollectTopics)
     /\ isRetryable(co.result.inner[1])) =>
        HasPrefix(co.result.inner[1].msg, FmtMaxRetriesHead)

\* What the code does: the topic listing is made once; its first error,
\* retryable or not, is the one CollectProject returns, and no backoff wait
\* is made for it.
C15_TopicListingMadeOnce ==
    (co.pc = "done" /\ HasPrefix(co.result.msg, FmtCollectTopics)) =>
        /\ ~HasPrefix(co.result.inner[1].msg, FmtMaxRetriesHead)
        /\ rs = RetryIdle
        /\ co.begun = 0


(***************************************************************************)
(* Claims about the queries of the Store.                                  *)
(***************************************************************************)

\* the query asked for project p: an empty list asks for every project
Wanted(projects, p) == Len(projects) = 0 \/ p \in Range(projects)

\* what was saved of a returned Topic
SavedTopic(t) ==
    [Name |-> t.Name, ProjectID |-> t.ProjectID,
     FullResourceName |-> t.FullResourceName, Metadata |-> t.Metadata]

\* what was saved of a returned Subscription
SavedSubscription(s) ==
    [Name |-> s.Name, ProjectID |-> s.ProjectID,
     TopicFullResourceName |-> s.TopicFullResourceName,
     FullResourceName |-> s.FullResourceName, Metadata |-> s.Metadata]

\* C16: GetAllTopics(projects) and GetAllSubscriptions(projects) that return
\* no error return every saved record when projects is empty and otherwise
\* exactly the saved records whose project ID is in projects, each record
\* once, also when the list names a project twice or one without records.
C16_AllOrListedProjects ==
    /\ (rd.op = "GetAllTopics" /\ rd.err = NilErr) =>
          LET want == {t \in hist.topics : Wanted(rd.arg, t.ProjectID)}
          IN  /\ {SavedTopic(rd.out[k]) : k \in 1..Len(rd.out)} = want
              /\ Len(rd.out) = Cardinality(want)
    /\ (rd.op = "GetAllSubscriptions" /\ rd.err = NilErr) =>
          LET want == {s \in hist.subscriptions : Wanted(rd.arg, s.ProjectID)}
          IN  /\ {SavedSubscription(rd.out[k]) : k \in 1..Len(rd.out)} = want
              /\ Len(rd.out) = Cardinality(want)

\* GetAllTopics for a list that names p1 twice, with one topic of p1 and one
\* of p2 stored, returned the topic of p1 once
C16_ProjectNamedTwice ==
    /\ rd.op = "GetAllTopics"
    /\ rd.arg = <<"p1", "p1">>
    /\ rd.err = NilErr
    /\ Len(rd.out) = 1
    /\ \E t \in hist.topics : t.ProjectID = "p2"


\* C17: GetTopics(p) and GetSubscriptions(p) whose query runs return no
\* error and exactly the saved records whose project ID is p, each once and
\* none of another project; the result is empty when p has no records or
\* was never saved.
C17_ExactlyOneProject ==
    /\ (rd.op = "GetTopics" /\ rd.fail = "") =>
          LET want == {t \in hist.topics : t.ProjectID = rd.arg[1]}
          IN  /\ rd.err = NilErr
              /\ {SavedTopic(rd.out[k]) : k \in 1..Len(rd.out)} = want
              /\ Len(rd.out) = Cardinality(want)
              /\ (want = {} => rd.out = <<>>)
    /\ (rd.op = "GetSubscriptions" /\ rd.fail = "") =>
          LET want == {s \in hist.subscriptions : s.ProjectID = rd.arg[1]}
          IN  /\ rd.err = NilErr
              /\ {SavedSubscription(rd.out[k]) : k \in 1..Len(rd.out)} = want
              /\ Len(rd.out) = Cardinality(want)
              /\ (want = {} => rd.out = <<>>)

\* GetTopics of a project that was never saved, with topics of two other
\* projects stored, returned nothing and no error
C17_NeverSavedProject ==
    /\ rd.op = "GetTopics"
    /\ rd.arg = <<"p3">>
    /\ rd.fail = ""
    /\ rd.out = <<>>
    /\ rd.err = NilErr
    /\ \E t \in hist.topics : t.ProjectID = "p1"
    /\ \E t \in hist.topics : t.ProjectID = "p2"


\* C18: a GetAllProjects whose query runs returns no error and exactly the
\* project IDs for which a SaveTopic, SaveSubscription or
\* UpdateProjectSyncTime call has returned nil, each once and in ascending
\* order.
C18_EveryWrittenProjectOnceAscending ==
    (rd.op = "GetAllProjects" /\ rd.fail = "") =>
        /\ rd.err = NilErr
        /\ Range(rd.out) = hist.projects
        /\ Len(rd.out) = Cardinality(hist.projects)
        /\ rd.out \in {<<>>, <<"p1">>, <<"p2">>, <<"p1", "p2">>}

\* p2 was written before p1, p2 by UpdateProjectSyncTime only, and
\* GetAllProjects returned p1 before p2
C18_MarkedThenSaved ==
    /\ rd.op = "GetAllProjects"
    /\ rd.out = <<"p1", "p2">>
    /\ hist.last.op = "SaveTopic"
    /\ hist.last.project = "p1"
    /\ hist.last.err = NilErr
    /\ hist.ops = 2
    /\ hist.subscriptions = {}
    /\ \A t \in hist.topics : t.ProjectID = "p1"


\* the step is one UpdateProjectSyncTime call
UpdateProjectSyncTimeCalled ==
    /\ hist'.ops = hist.ops + 1
    /\ hist'.last.op = "UpdateProjectSyncTime"

\* C19: an UpdateProjectSyncTime(p) call adds, changes and removes no topic
\* and no subscription record and no Project record of another project; one
\* that returns nil leaves exactly one Project record of p, whether or not
\* p had one and whether or not p has topics or subscriptions, and
\* GetAllProjects returns p once next to the projects it returned before;
\* one that fails changes nothing.
C19_UpsertOfProjectRecordOnly ==
    [][UpdateProjectSyncTimeCalled =>
          LET p == hist'.last.project
          IN  /\ db'.topics = db.topics
              /\ db'.subscriptions = db.subscriptions
              /\ {r \in db'.projects : r.project_id # p}
                   = {r \in db.projects : r.project_id # p}
              /\ hist'.last.err = NilErr =>
                    /\ Cardinality({r \in db'.projects : r.project_id = p}) = 1
                    /\ Cardinality({k \in 1..Len(GetAllProjects(db')) :
                                       GetAllProjects(db')[k] = p}) = 1
                    /\ Range(GetAllProjects(db'))
                         = Range(GetAllProjects(db)) \cup {p}
              /\ hist'.last.err # NilErr => db' = db]_vars

\* UpdateProjectSyncTime("p1") returned nil a second time, a second after
\* the first, for a project without topics and subscriptions
C19_MarkedAgain ==
    /\ hist.last.op = "UpdateProjectSyncTime"
    /\ hist.last.project = "p1"
    /\ hist.last.known
    /\ hist.last.err = NilErr
    /\ hist.ops = 2
    /\ hist.topics = {}
    /\ hist.subscriptions = {}
    /\ now = 1
    /\ db.projects = {[project_id |-> "p1", last_synced |-> 1]}
    /\ GetAllProjects(db) = <<"p1">>
    /\ db.topics = {}
    /\ db.subscriptions = {}


\* C20: a SaveSubscription call that meets no database failure returns nil
\* whether or not a topic with its topic_full_resource_name is stored, and
\* a GetSubscriptions of the owning project whose query runs returns the
\* subscription with the topic_full_resource_name it was saved with.
C20_TopicReferenceKeptUnchecked ==
    /\ (hist.last.op = "SaveSubscription" /\ hist.last.fail = "") =>
          hist.last.err = NilErr
    /\ (rd.op = "GetSubscriptions" /\ rd.fail = "") =>
          \A s \in hist.subscriptions :
              s.ProjectID = rd.arg[1] =>
                  \E k \in 1..Len(rd.out) :
                      /\ rd.out[k].FullResourceName = s.FullResourceName
                      /\ rd.out[k].TopicFullResourceName = s.TopicFullResourceName

\* a subscription of p1 to a topic of the unscanned project p9 was saved
\* with no such topic stored, and GetSubscriptions("p1") returned it with
\* that topic name
C20_TopicOfUnscannedProject ==
    /\ hist.last.op = "SaveSubscription"
    /\ hist.last.err = NilErr
    /\ rd.op = "GetSubscriptions"
    /\ rd.arg = <<"p1">>
    /\ Len(rd.out) = 1
    /\ rd.out[1].TopicFullResourceName = "projects/p9/topics/t9"
    /\ \A r \in db.topics : r.full_resource_name # "projects/p9/topics/t9"
    /\ \A r \in db.projects : r.project_id # "p9"


(***************************************************************************)
(* Claims about the lifetime of the records and about concurrent writers.  *)
(***************************************************************************)

\* the full resource names of the rows of a table
FullResourceNames(table) == {r.full_resource_name : r \in table}

\* C21: no step of the Store, failed calls included, removes a topic or a
\* subscription record's full resource name or a Project record's project
\* ID, and every full resource name and project of a call that returned nil
\* is stored after the call.
C21_NeverDeleted ==
    [][/\ FullResourceNames(db.topics) \subseteq FullResourceNames(db'.topics)
       /\ FullResourceNames(db.subscriptions)
            \subseteq FullResourceNames(db'.subscriptions)
       /\ {r.project_id : r \in db.projects}
            \subseteq {r.project_id : r \in db'.projects}
       /\ {t.FullResourceName : t \in hist'.topics}
            \subseteq FullResourceNames(db'.topics)
       /\ {s.FullResourceName : s \in hist'.subscriptions}
            \subseteq FullResourceNames(db'.subscriptions)
       /\ hist'.projects \subseteq {r.project_id : r \in db'.projects}]_vars

\* with two subscriptions of one project stored, a third SaveSubscription
\* of one of them failed at commit and both are still stored
C21_KeptAfterFailedSave ==
    /\ hist.ops = 3
    /\ hist.last.op = "SaveSubscription"
    /\ hist.last.fail = "commit"
    /\ hist.last.key \in FullResourceNames(db.subscriptions)
    /\ Cardinality(db.subscriptions) = 2
    /\ \A r \in db.subscriptions : r.project_id = "p1"


\* the records of a database without their synthetic IDs and timestamps
Contents(d) ==
    [projects |-> {r.project_id : r \in d.projects},
     topics |-> {[name |-> r.name, project_id |-> r.project_id,
                  full_resource_name |-> r.full_resource_name,
                  metadata |-> r.metadata] : r \in d.topics},
     subscriptions |-> {[name |-> r.name, project_id |-> r.project_id,
                         topic_full_resource_name |-> r.topic_full_resource_name,
                         full_resource_name |-> r.full_resource_name,
                         metadata |-> r.metadata] : r \in d.subscriptions}]

\* C22: when two writers save under different full resource names, the
\* contents of the store, synthetic IDs and timestamps aside, are those of
\* the first writer's saves followed by the second's and those of the
\* second's followed by the first's, however the saves interleaved.
C22_InterleavingIndependent ==
    /\ Contents(db) = Contents(Replay(EmptyDB, wr.done[1] \o wr.done[2]))
    /\ Contents(db) = Contents(Replay(EmptyDB, wr.done[2] \o wr.done[1]))

\* the second writer's topic was saved before the first writer's, the first
\* writer's subscription before the second's, both writers wrote the
\* Project record of p2, and a second passed between the saves
C22_SavesInterleaved ==
    /\ Len(wr.done[1]) = 2
    /\ Len(wr.done[2]) = 2
    /\ \E a, b \in db.topics :
          /\ a.full_resource_name = "projects/p1/topics/t1"
          /\ b.full_resource_name = "projects/p2/topics/t1"
          /\ b.id < a.id
          /\ a.project_id = "p2"
    /\ \E a, b \in db.subscriptions :
          /\ a.full_resource_name = "projects/p1/subscriptions/s1"
          /\ b.full_resource_name = "projects/p2/subscriptions/s1"
          /\ a.id < b.id
          /\ a.last_synced < b.last_synced


(***************************************************************************)
(* Claims about cancellation and about the projects of a CollectAll call.  *)
(***************************************************************************)

\* worker k can leave the point at which it is blocked by a step of its own
CanLeave(k) ==
    \/ pool.w[k].pc = "acquire" /\ CanSend(pool.sem, pool.maxConcurrent)
    \/ pool.w[k].pc = "limiter"
          /\ LimiterWait(pool.burst, ctx, pool.deadline) # {}

\* C23: once the context is done, every worker waiting for an admission
\* slot or for a limiter token can leave that blocking point by a step of
\* its own, whether or not another worker releases a slot.
C23_BlockingPointsObserveCancellation ==
    \A k \in 1..Len(pool.w) :
        (ctx # "live" /\ pool.w[k].pc \in {"acquire", "limiter"}) => CanLeave(k)

\* a worker that waits for a limiter token when the context is done leaves
\* with the context's error: every outcome of Wait is an error
C23_LimiterWaitObservesCancellation ==
    \A k \in 1..Len(pool.w) :
        (ctx # "live" /\ pool.w[k].pc = "limiter") =>
            /\ LimiterWait(pool.burst, ctx, pool.deadline) # {}
            /\ NilErr \notin LimiterWait(pool.burst, ctx, pool.deadline)

\* the context is done, one worker is collecting with the only slot and
\* another is blocked in the send on the semaphore
C23_WaitsForSlotAfterCancel ==
    /\ ctx = "canceled"
    /\ pool.maxConcurrent = 1
    /\ \E j, k \in 1..Len(pool.w) :
          /\ pool.w[j].pc = "collect"
          /\ pool.w[k].pc = "acquire"
          /\ ~CanSend(pool.sem, pool.maxConcurrent)


\* workers j and k are both inside CollectProject for one project ID
CollectingSameProject(j, k) ==
    /\ j # k
    /\ pool.w[j].pc = "collect"
    /\ pool.w[k].pc = "collect"
    /\ pool.w[j].pid = pool.w[k].pid

\* C24: during CollectAll no two workers are inside CollectProject for the
\* same project ID, whatever the project list, lists that name a project
\* more than once included.
C24_OneInvocationPerProject ==
    \A j, k \in 1..Len(pool.w) : ~CollectingSameProject(j, k)

\* when the list names no project twice, no two workers are inside
\* CollectProject for the same project ID
C24_OneInvocationWhenListDistinct ==
    (\A j, k \in 1..Len(pool.projects) :
        pool.projects[j] = pool.projects[k] => j = k)
    => \A j, k \in 1..Len(pool.w) : ~CollectingSameProject(j, k)

\* the list names p1 twice and both workers are inside CollectProject
C24_SameProjectTwice ==
    /\ pool.projects = <<"p1", "p1">>
    /\ pool.maxConcurrent = 2
    /\ CollectingSameProject(1, 2)


(***************************************************************************)
(* Claims about Close and extractResourceName.                             *)
(***************************************************************************)

\* C25: when Close has returned, its loop has visited every cached client,
\* those after a failed close included; the result is an error exactly when
\* a close failed, and its message holds the "failed to close client for
\* project P" message of every client P that failed; with no cached client
\* the result is nil.
C25_CloseVisitsAllReportsAll ==
    cc.pc = "returned" =>
        /\ cc.closed = cc.clients
        /\ (cc.result # NilErr) <=> (cc.failed # {})
        /\ \A p \in cc.failed :
              Contains(cc.result.msg,
                       FmtCloseClient \o Chars(p) \o FmtColon \o ClientCloseError.msg)
        /\ Len(cc.errs) = Cardinality(cc.failed)
        /\ (cc.clients = {} => cc.result = NilErr)

\* of three cached clients the one of p3 failed to close first, the one of
\* p1 failed later, the one of p2 closed, and Close returned an error
C25_TwoOfThreeFailed ==
    /\ cc.pc = "returned"
    /\ cc.clients = {"p1", "p2", "p3"}
    /\ cc.closed = cc.clients
    /\ cc.failed = {"p3", "p1"}
    /\ cc.errs[1].msg = CloseClientError("p3", ClientCloseError).msg
    /\ cc.result # NilErr


\* the string consists of "/" characters only; the empty string does
OnlySlashes(s) == \A k \in 1..Len(s) : s[k] = "/"

\* C26: extractResourceName returns a string without "/"; the result is
\* empty exactly when the argument is empty or consists of "/" characters
\* only, and otherwise it is the segment of the argument that starts at the
\* beginning or after a "/" and after which only "/" characters follow.
C26_LastNonEmptySegment ==
    ex.pc = "done" =>
        /\ \A k \in 1..Len(ex.result) : ex.result[k] # "/"
        /\ (ex.result = <<>>) <=> OnlySlashes(ex.fullPath)
        /\ ex.result # <<>> =>
              \E i, j \in 1..Len(ex.fullPath) :
                  /\ i <= j
                  /\ SubSeq(ex.fullPath, i, j) = ex.result
                  /\ (i = 1 \/ ex.fullPath[i - 1] = "/")
                  /\ OnlySlashes(SubSeq(ex.fullPath, j + 1, Len(ex.fullPath)))

\* "a/b/" gives "b": an empty segment follows the one returned
C26_TrailingSlash ==
    /\ ex.pc = "done"
    /\ ex.fullPath = <<"a", "/", "b", "/">>
    /\ ex.result = <<"b">>


(***************************************************************************)
(* Claims about the graph Builder.                                         *)
(***************************************************************************)

\* Build has returned a graph
GraphBuilt == gb.pc = "returned" /\ ~gb.isNil

\* the subscriptions and topics Build read: those of the projects asked for
SubscriptionsInScope == {r \in db.subscriptions : Wanted(gb.projects, r.project_id)}

TopicsInScope == {r \in db.topics : Wanted(gb.projects, r.project_id)}

\* C27: in every graph Build returns both endpoints of every edge are IDs
\* of nodes of the graph, also when a subscription references a topic that
\* is not among the topics read.
C27_EdgeEndpointsAreNodes ==
    GraphBuilt =>
        \A k \in 1..Len(gb.graph.Edges) :
            /\ gb.graph.Edges[k].From \in DOMAIN gb.graph.Nodes
            /\ gb.graph.Edges[k].To \in DOMAIN gb.graph.Nodes

\* the source of every edge is the ID of a node of the graph
C27_EdgeSourcesAreNodes ==
    GraphBuilt =>
        \A k \in 1..Len(gb.graph.Edges) :
            gb.graph.Edges[k].From \in DOMAIN gb.graph.Nodes

\* only p1 was collected, its subscription s2 references a topic of p2, and
\* the graph has an edge to the node ID of that topic, which is no node
C27_EdgeToMissingTopic ==
    /\ GraphBuilt
    /\ \A r \in db.topics : r.project_id = "p1"
    /\ \E k \in 1..Len(gb.graph.Edges) :
          /\ gb.graph.Edges[k].To = TopicNodeID(Chars("p2"), Chars("t1"))
          /\ gb.graph.Edges[k].To \notin DOMAIN gb.graph.Nodes


\* the edges of the graph that leave the node of subscription row r
EdgesOf(r) ==
    {k \in 1..Len(gb.graph.Edges) :
        gb.graph.Edges[k].From = SubscriptionNodeID(Chars(r.project_id), r.name)}

\* C28: a graph Build returns has as many edges as there are subscriptions
\* in scope, one for each; the edge of a subscription of project q that
\* references projects/p/topics/n goes from the subscription's node to
\* the node ID of topic n of p, and its kind is cross_project when p is not
\* q and subscribes when it is.
C28_OneEdgePerSubscription ==
    GraphBuilt =>
        /\ Len(gb.graph.Edges) = Cardinality(SubscriptionsInScope)
        /\ \A r \in SubscriptionsInScope :
              /\ Cardinality(EdgesOf(r)) = 1
              /\ \A k \in EdgesOf(r) :
                    \E p \in Range(ProjectIDs), n \in {"t1"} :
                        /\ r.topic_full_resource_name = TopicPath(p, n)
                        /\ gb.graph.Edges[k].To
                             = FmtTopicNode \o Chars(p) \o <<"_">> \o Chars(n)
                        /\ gb.graph.Edges[k].Type
                             = (IF p = r.project_id
                                THEN "subscribes" ELSE "cross_project")

\* the graph of project p1 has the edge of s1 to the topic of p1 and the
\* cross-project edge of s2 to the topic of p2
C28_BothKindsOfEdge ==
    /\ GraphBuilt
    /\ gb.projects = <<"p1">>
    /\ Len(gb.graph.Edges) = 2
    /\ \E j, k \in 1..Len(gb.graph.Edges) :
          /\ gb.graph.Edges[j].Type = "subscribes"
          /\ gb.graph.Edges[j].To = TopicNodeID(Chars("p1"), Chars("t1"))
          /\ gb.graph.Edges[k].Type = "cross_project"
          /\ gb.graph.Edges[k].To = TopicNodeID(Chars("p2"), Chars("t1"))
          /\ gb.graph.Edges[k].From = SubscriptionNodeID(Chars("p1"), Chars("s2"))


\* C29: in a graph Build returns the clusters are those of the projects
\* that own a topic or a subscription in scope, which are the projects of
\* the nodes; every node ID is listed in the cluster of the node's project
\* and in no other cluster, a cluster lists IDs of nodes only, and no
\* cluster lists an ID twice.
C29_ClustersPartitionNodes ==
    GraphBuilt =>
        LET g == gb.graph
        IN  /\ DOMAIN g.Clusters = {g.Nodes[id].Project : id \in DOMAIN g.Nodes}
            /\ DOMAIN g.Clusters
                 = {r.project_id : r \in TopicsInScope}
                   \cup {r.project_id : r \in SubscriptionsInScope}
            /\ \A id \in DOMAIN g.Nodes, c \in DOMAIN g.Clusters :
                  (id \in Range(g.Clusters[c].Nodes)) <=> (c = g.Nodes[id].Project)
            /\ \A c \in DOMAIN g.Clusters :
                  /\ Range(g.Clusters[c].Nodes) \subseteq DOMAIN g.Nodes
                  /\ \A i, j \in 1..Len(g.Clusters[c].Nodes) :
                        g.Clusters[c].Nodes[i] = g.Clusters[c].Nodes[j] => i = j

\* both projects were collected and the graph of both has two clusters,
\* with the three nodes of p1 and the two nodes of p2
C29_TwoClusters ==
    /\ GraphBuilt
    /\ DOMAIN gb.graph.Clusters = {"p1", "p2"}
    /\ Len(gb.graph.Clusters["p1"].Nodes) = 3
    /\ Len(gb.graph.Clusters["p2"].Nodes) = 2
    /\ Cardinality(DOMAIN gb.graph.Nodes) = 5


FailureFreePass(projectID) == CollectProject(EmptyDB, now, projectID, "", "live").db

\* the positions 1, 2, ... in order
FromTheFirst(fetched) == \A i \in 1..Len(fetched) : fetched[i] = i

\* C31 as stated: once CollectProject has returned nil, whatever attempts
\* of the subscription listing failed before, the store is the store a
\* single pass without failure leaves, row for row.
C31_StoreEqualsFailureFreePass ==
    (co.pc = "done" /\ co.result = NilErr) => db = FailureFreePass(co.project)

\* C31: every attempt of the subscription listing works on an iterator of
\* its own that hands out the items from the first one on, whatever the
\* attempts before it fetched; an attempt that ends without error has
\* fetched and saved every item of the list itself, those saved by a failed
\* attempt included; and once CollectProject has returned nil the records of
\* the store are those a single pass without failure leaves, the
\* storage-assigned IDs and the timestamps aside (an item saved again gets a
\* new ID).
C31_EveryAttemptFromTheFirstItem ==
    /\ FromTheFirst(co.fetched)
    /\ \A k \in 1..Len(co.attempts) :
          LET a == co.attempts[k]
          IN  /\ FromTheFirst(a.fetched)
              /\ a.at = "" =>
                    /\ Len(a.fetched) = Len(RemoteSubscriptions(co.project))
                    /\ Contents(db).subscriptions
                          = Contents(FailureFreePass(co.project)).subscriptions
    /\ (co.pc = "done" /\ co.result = NilErr) =>
          Contents(db) = Contents(FailureFreePass(co.project))

\* an attempt failed after it had saved an item, a later attempt went
\* through the whole list, and CollectProject has returned nil
C31_RetryAfterPartialListing ==
    /\ co.pc = "done"
    /\ co.result = NilErr
    /\ Len(co.attempts) >= 2
    /\ co.attempts[1].at = "iterator"
    /\ co.attempts[1].pos >= 1
    /\ co.attempts[Len(co.attempts)].at = ""
    /\ Len(co.attempts[Len(co.attempts)].fetched) = 2

\* C32: in a listing of topics and in every attempt of a listing of
\* subscriptions each it.Next() call comes after exactly one limiter wait
\* that returned nil and that no earlier call used up, the call that reports
\* the end of the list included; and when the limiter wait returns an error
\* the listing ends with that error and makes no further it.Next() call.
C32_OneTokenPerFetch ==
    /\ co.pc \in {"topicsNext", "subsNext"} =>
          /\ co.waits = co.nexts + 1
          /\ ~co.refused
    /\ co.pc \notin {"topicsNext", "subsNext"} => co.waits = co.nexts
    /\ co.refused =>
          /\ co.pc \in {"done", "backoff"}
          /\ co.pc = "done" => co.result # NilErr
          /\ co.begun = 0 => co.nexts = co.pos
    /\ Len(rs.returned) = Len(co.attempts)
    /\ \A k \in 1..Len(co.attempts) :
          LET a == co.attempts[k]
          IN  /\ a.waits = a.nexts
              /\ a.at = "limiter" =>
                    /\ rs.returned[k] # NilErr
                    /\ a.nexts = a.pos
              /\ a.at \in {"iterator", "store"} => a.nexts = a.pos + 1
              /\ a.at = "" =>
                    a.nexts = Len(RemoteSubscriptions(co.project)) + 1

\* a limiter wait of a subscription listing returned an error after an
\* item had been fetched and saved, and CollectProject has returned
C32_RefusedAfterFetch ==
    /\ co.pc = "done"
    /\ co.refused
    /\ co.attempts # <<>>
    /\ co.attempts[Len(co.attempts)].at = "limiter"
    /\ co.attempts[Len(co.attempts)].nexts = 1
    /\ co.attempts[Len(co.attempts)].waits = 1

(***************************************************************************)
(* Claims about getClient under concurrent callers.                        *)
(***************************************************************************)

\* caller j waits for the mutex
Blocked(j) ==
    \/ gc.g[j].pc = "idle" /\ ~CanRLock(gc)
    \/ gc.g[j].pc = "locking" /\ ~CanLock(gc)

C34_OneClientPerProject ==
    /\ \A i, j \in 1..Len(gc.puts) :
          gc.puts[i].pid = gc.puts[j].pid => i = j
    /\ \A i \in 1..Len(gc.puts) :
          /\ gc.puts[i].pid \in DOMAIN gc.clients
          /\ gc.clients[gc.puts[i].pid] = gc.puts[i].client
    /\ \A p \in DOMAIN gc.clients :
          /\ \E i \in 1..Len(gc.puts) : gc.puts[i].pid = p
          /\ gc.clients[p] \notin gc.closed
    /\ \A k \in DOMAIN gc.g :
          gc.g[k].pc = "returned" =>
              /\ gc.g[k].err = NilErr =>
                    /\ gc.g[k].pid \in DOMAIN gc.clients
                    /\ gc.g[k].client = gc.clients[gc.g[k].pid]
              /\ gc.g[k].newClient # 0 =>
                    \/ /\ gc.g[k].pid \in DOMAIN gc.clients
                       /\ gc.clients[gc.g[k].pid] = gc.g[k].newClient
                    \/ gc.g[k].newClient \in gc.closed

\* both callers created a client for p1; the second stored its client
\* first, the first closed its own and returned the second's
C34_LoserClosed ==
    /\ gc.g # <<>>
    /\ gc.g[1].pc = "returned"
    /\ gc.g[2].pc = "returned"
    /\ gc.g[1].pid = "p1"
    /\ gc.g[2].pid = "p1"
    /\ gc.g[1].newClient = 1
    /\ gc.g[1].client = 2
    /\ gc.closed = {1}

(***************************************************************************)
(* Claims about the errors of the Store in a listing.                      *)
(***************************************************************************)

\* the errors a Save returns in the model: a failing database call, or the
\* error of the context
StoreErrors == {StorageError, ContextCanceled, ContextDeadlineExceeded}

\* err is wrapper around ... around inner, each made with %w
RECURSIVE WrapsError(_, _)
WrapsError(err, inner) ==
    \/ err = inner
    \/ /\ err.inner # <<>>
       /\ WrapsError(err.inner[1], inner)

\* err is what fmt.Errorf(prefix + name + ": %w", inner) gives for an error
\* of the Store
WrapsStoreError(err, prefix, name) ==
    /\ err.kind = "wrap"
    /\ err.inner # <<>>
    /\ err.inner[1] \in StoreErrors
    /\ err.msg = prefix \o name \o FmtColon \o err.inner[1].msg

\* C35: when SaveTopic fails in the topic listing, the listing ends at that
\* item (no limiter wait and no it.Next() call follows) and CollectProject
\* has returned "failed to collect topics: failed to save topic <name>: "
\* around the Store's error; when SaveSubscription fails in an attempt of
\* the subscription listing, the attempt ends at that item with "failed to
\* save subscription <name>: " around the Store's error, and once
\* CollectProject has returned, it has returned an error that wraps the
\* Store's error: no later step turns the failure into success.  (The one
\* failure of a Save that is retried is the passing of the context's
\* deadline; the attempts after it end with the same error of the context.)
C35_StoreErrorEndsAttemptAndIsReturned ==
    /\ (hist.last.op = "SaveTopic" /\ hist.last.err # NilErr) =>
          /\ co.pc = "done"
          /\ co.nexts = co.pos + 1
          /\ co.waits = co.nexts
          /\ co.result.kind = "wrap"
          /\ co.result.msg = FmtCollectTopics \o co.result.inner[1].msg
          /\ WrapsStoreError(co.result.inner[1], FmtSaveTopic,
                             extractResourceName(hist.last.key))
          /\ co.result.inner[1].inner[1] = hist.last.err
    /\ \A k \in 1..Len(co.attempts) :
          LET a == co.attempts[k]
          IN  a.at = "store" =>
                 /\ a.nexts = a.pos + 1
                 /\ a.waits = a.nexts
                 /\ Len(a.fetched) = a.pos + 1
                 /\ WrapsStoreError(
                        rs.returned[k], FmtSaveSubscription,
                        extractResourceName(
                            RemoteSubscriptions(co.project)[a.pos + 1].Name))
                 /\ co.pc = "done" =>
                        /\ co.result # NilErr
                        /\ WrapsError(co.result, rs.returned[k].inner[1])

\* the first subscription was saved, the SaveSubscription of the second
\* failed at its commit, and CollectProject has returned the error
C35_SecondSaveFailed ==
    /\ co.pc = "done"
    /\ Len(co.attempts) = 1
    /\ co.attempts[1].at = "store"
    /\ co.attempts[1].pos = 1
    /\ rs.returned[1].inner[1] = StorageError
    /\ co.result = Errorf(FmtCollectSubscriptions, rs.returned[1])

(***************************************************************************)
(* Claims about the backoff waits.                                         *)
(***************************************************************************)

\* 2^n
RECURSIVE PowerOfTwo(_)
PowerOfTwo(n) == IF n = 0 THEN 1 ELSE 2 * PowerOfTwo(n - 1)

RECURSIVE SumOf(_)
SumOf(seq) == IF seq = <<>> THEN 0 ELSE Head(seq) + SumOf(Tail(seq))

C37_WaitFailsOnlyOnCancellation ==
    (co.refused /\ ~co.deadline) => ctx # "live"

(***************************************************************************)
(* Claims about the end of CollectAll and about a pool used twice.         *)
(***************************************************************************)

\* C38: when the goroutines are scheduled and every limiter wait and every
\* CollectProject call returns, CollectAll returns in the end and no slot
\* of the semaphore is taken then, whatever the number of projects and the
\* maximum concurrency (0 included) of the pool.
C38_CollectAllReturns ==
    <>(pool.main = "returned" /\ pool.sem = 0)

\* C39: once a CollectAll call has returned, the errors map holds the
\* projects whose worker recorded an error in that call and no other, and
\* the call has returned an error exactly when there is such a project,
\* also when it is not the first call on the pool.
C39_ErrorsOfThisCallOnly ==
    pool.main = "returned" =>
        /\ DOMAIN pool.errors = pool.failed
        /\ (pool.result # NilErr) <=> (pool.failed # {})

(***************************************************************************)
(* Claims about the Project record of a collected project.                 *)
(***************************************************************************)

\* what GetAllProjects and the last-synced column tell of a project
ProjectRow(rows, projectID) == {r \in rows : r.project_id = projectID}

\* C40 as stated: once CollectProject has returned an error, the Project
\* record of the project is as it was before the call: absent if it was
\* absent, with the same last-synced value if it was there.
C40_FailedCallLeavesProjectRecord ==
    (co.pc = "done" /\ co.result # NilErr) =>
        ProjectRow(db.projects, co.project) = ProjectRow(co.before, co.project)

\* C40: the Project record of a project is created or touched in a
\* CollectProject call only for the project of the call and only by a Store
\* call that returned nil: the UpdateProjectSyncTime at the end of a call
\* that succeeds in full, and every SaveTopic and SaveSubscription that
\* succeeds, as a side effect.  After a call that returns an error without
\* a successful Save, the project's presence and last-synced value are
\* those before the call; after a successful Save, and after a call that
\* returns nil, the record is there, with the time of the write.
C40_ProjectRecordTouchedBySuccessfulWrites ==
    /\ \A q \in Range(ProjectIDs) :
          ProjectRow(db.projects, q) # ProjectRow(co.before, q) =>
              /\ q = co.project
              /\ q \in hist.projects
              /\ ProjectRow(db.projects, q) = {[project_id |-> q, last_synced |-> now]}
    /\ (/\ co.pc = "done"
        /\ co.result # NilErr
        /\ hist.topics = {}
        /\ hist.subscriptions = {}) =>
          ProjectRow(db.projects, co.project) = ProjectRow(co.before, co.project)
    /\ ((co.pc = "done" /\ co.result = NilErr) \/ co.project \in hist.projects) =>
          ProjectRow(db.projects, co.project)
              = {[project_id |-> co.project, last_synced |-> now]}

\* the project was scanned a second before; the first SaveTopic of the new
\* call failed at its commit and the call returned the error: the record
\* has the last-synced value of the earlier scan
C40_FailedSaveOnScannedProject ==
    /\ co.pc = "done"
    /\ co.result # NilErr
    /\ hist.ops = 1
    /\ hist.last.op = "SaveTopic"
    /\ hist.last.fail = "commit"
    /\ ProjectRow(co.before, co.project)
          = {[project_id |-> co.project, last_synced |-> 0]}
    /\ ProjectRow(db.projects, co.project) = ProjectRow(co.before, co.project)
====
